---- MODULE Spec2Model ----
(***************************************************************************)
(* Model of the response-parsing and nutrition-log aggregation pipeline of *)
(* src/app.py.                                                             *)
(*                                                                         *)
(* Python strings are sequences of one-character tokens.  ASCII characters *)
(* stand for themselves; every non-ASCII character of the source is        *)
(* written as an ASCII token:                                              *)
(*   "WAVE"    U+301C wave dash         "FWTILDE" U+FF5E fullwidth tilde   *)
(*   "FWCOLON" U+FF1A fullwidth colon   "NL"      line feed                *)
(*   kXX       katakana XX, hXX hiragana XX, zXX kanji read XX             *)
(* Python values are tagged records (Str, Num, None) because the rows that *)
(* gspread returns hold numbers for numeric cells and strings otherwise.   *)
(***************************************************************************)
EXTENDS Integers, Sequences, FiniteSets, TLC

VARIABLES
    pc,          \* position of the modelled call or script run
    value,       \* argument of parse_nutrition_value
    outcome,     \* what parse_nutrition_value did: returned a float or raised
    text,        \* response_text handed to parse_nutrition_from_response
    doc,         \* what the writer of a formatted response text meant to say
    nutrition,   \* the dict parse_nutrition_from_response returned
    normalized,  \* parse_nutrition_value of each extracted nutrient field
    time_str,    \* argument of classify_meal_type
    meal_type,   \* what classify_meal_type returned
    all_records,       \* the rows get_all_records returned
    selected_user,     \* the user selectbox
    start_date,        \* the start date input
    end_date,          \* the end date input
    filtered_records,  \* the filtered, sorted rows
    refiltered,        \* the filter applied to filtered_records
    summary,           \* totals, counts and averages of the period
    daily_data,        \* per-date sums, in the order the dates were first met
    chart_df,          \* the rows handed to create_nutrition_chart
    summary_data,      \* the summary row of the printable report
    gc,                \* whether get_gspread_client returned a client
    drive,             \* sheet1 of every spreadsheet named like the log
    sessions,          \* each user session's run of the analysis flow
    clock,             \* the wall clock, in ticks
    read,              \* how the admin's get_all_records call ended
    admin_password,    \* st.secrets.get("ADMIN_PASSWORD", None)
    session_state,     \* the admin flags of each browser session's st.session_state
    page,              \* what each session's last script run rendered
    audit              \* what each session's user submitted at the password form

vars == <<pc, value, outcome, text, doc, nutrition, normalized,
          time_str, meal_type, all_records, selected_user, start_date,
          end_date, filtered_records, refiltered, summary, daily_data,
          chart_df, summary_data, gc, drive, sessions, clock, read,
          admin_password, session_state, page, audit>>
normVars == <<value, outcome>>
extractVars == <<text, doc, nutrition, normalized>>
classifyVars == <<time_str, meal_type>>
logVars == <<gc, drive, sessions, clock, read>>
adminVars == <<admin_password, session_state, page, audit>>
reportVars == <<all_records, selected_user, start_date, end_date,
                filtered_records, refiltered, summary, daily_data, chart_df,
                summary_data>>

(***************************************************************************)
(* Bounds of the model.                                                    *)
(***************************************************************************)
MaxLen == 4      \* longest enumerated argument string of parse_nutrition_value
MaxExp == 5      \* largest exponent digit string value in an enumerated string
MaxPieces == 3   \* most pieces (labels, characters) of an enumerated response text
MaxTimeLen == 3  \* longest enumerated argument string of classify_meal_type
MaxRecords == 2  \* most rows of an enumerated log

(***************************************************************************)
(* Characters.                                                             *)
(***************************************************************************)
WAVE == "WAVE"
FWTILDE == "FWTILDE"
TILDE == "~"
HYPHEN == "-"
NL == "NL"

Digits == {"0", "1", "2", "3", "4", "5", "6", "7", "8", "9"}

DigitVal(c) ==
    CASE c = "0" -> 0 [] c = "1" -> 1 [] c = "2" -> 2 [] c = "3" -> 3
      [] c = "4" -> 4 [] c = "5" -> 5 [] c = "6" -> 6 [] c = "7" -> 7
      [] c = "8" -> 8 [] c = "9" -> 9

(***************************************************************************)
(* Python floats, as exact rationals n/d in lowest terms with d > 0.       *)
(***************************************************************************)
RECURSIVE GCD(_, _)
GCD(a, b) == IF b = 0 THEN a ELSE GCD(b, a % b)

Abs(x) == IF x < 0 THEN -x ELSE x

Rat(n, d) ==
    LET g == GCD(Abs(n), d)
    IN  IF n = 0 THEN [n |-> 0, d |-> 1] ELSE [n |-> n \div g, d |-> d \div g]

RZero == [n |-> 0, d |-> 1]
RInt(i) == [n |-> i, d |-> 1]
RAdd(a, b) == Rat(a.n * b.d + b.n * a.d, a.d * b.d)
RDivInt(a, k) == Rat(a.n, a.d * k)
RNeg(a) == [n |-> -a.n, d |-> a.d]

RECURSIVE Pow10(_)
Pow10(k) == IF k = 0 THEN 1 ELSE 10 * Pow10(k - 1)

RECURSIVE RSum(_)
RSum(rs) == IF rs = <<>> THEN RZero ELSE RAdd(Head(rs), RSum(Tail(rs)))

(***************************************************************************)
(* Python values.                                                          *)
(***************************************************************************)
Str(s) == [type |-> "str", s |-> s, r |-> RZero]
Num(r) == [type |-> "num", s |-> <<>>, r |-> r]
None == [type |-> "none", s |-> <<>>, r |-> RZero]

\* str(value) for the values of the model
PyStr(v) ==
    IF v.type = "str" THEN v.s
    ELSE IF v.type = "none" THEN <<"N", "o", "n", "e">>
    ELSE <<"#">>    \* never taken: numbers return before str() is reached

(***************************************************************************)
(* String helpers: str.replace(c, ''), `c in s`, str.split(c).             *)
(***************************************************************************)
RECURSIVE RemoveChar(_, _)
RemoveChar(s, c) ==
    IF s = <<>> THEN <<>>
    ELSE IF Head(s) = c THEN RemoveChar(Tail(s), c)
    ELSE <<Head(s)>> \o RemoveChar(Tail(s), c)

Contains(s, c) == \E i \in 1..Len(s) : s[i] = c

\* str.split(c): the pieces between ALL occurrences of c, empty pieces kept
RECURSIVE SplitAcc(_, _, _)
SplitAcc(s, c, cur) ==
    IF s = <<>> THEN <<cur>>
    ELSE IF Head(s) = c THEN <<cur>> \o SplitAcc(Tail(s), c, <<>>)
    ELSE SplitAcc(Tail(s), c, Append(cur, Head(s)))

Split(s, c) == SplitAcc(s, c, <<>>)

(***************************************************************************)
(* float(str): optional sign, digits with an optional point (at least one  *)
(* digit), optional exponent e/E with optional sign and digits.  The       *)
(* literals inf/nan, digit-group underscores and surrounding whitespace    *)
(* other than the space that the caller has removed lie outside the        *)
(* enumerated alphabet and are not modelled.                               *)
(***************************************************************************)
RECURSIVE DigitsEnd(_, _)
\* first index >= i of s that holds no digit (Len(s) + 1 when none)
DigitsEnd(s, i) ==
    IF i <= Len(s) /\ s[i] \in Digits THEN DigitsEnd(s, i + 1) ELSE i

RECURSIVE NatOf(_, _, _)
\* value of the digit string s[i..j-1]
NatOf(s, i, j) ==
    IF j <= i THEN 0 ELSE 10 * NatOf(s, i, j - 1) + DigitVal(s[j - 1])

Fail == [ok |-> FALSE, r |-> RZero]
Ok(r) == [ok |-> TRUE, r |-> r]

PyFloat(s) ==
    LET signed == Len(s) >= 1 /\ s[1] \in {"+", "-"}
        i1 == IF signed THEN 2 ELSE 1
        intEnd == DigitsEnd(s, i1)
        hasDot == intEnd <= Len(s) /\ s[intEnd] = "."
        fracEnd == IF hasDot THEN DigitsEnd(s, intEnd + 1) ELSE intEnd
        nInt == intEnd - i1
        nFrac == IF hasDot THEN fracEnd - (intEnd + 1) ELSE 0
        hasExp == fracEnd <= Len(s) /\ s[fracEnd] \in {"e", "E"}
        expSigned == hasExp /\ fracEnd + 1 <= Len(s)
                            /\ s[fracEnd + 1] \in {"+", "-"}
        e1 == IF expSigned THEN fracEnd + 2 ELSE fracEnd + 1
        expEnd == IF hasExp THEN DigitsEnd(s, e1) ELSE fracEnd
        wellFormed == /\ nInt + nFrac >= 1
                      /\ hasExp => expEnd > e1
                      /\ expEnd = Len(s) + 1
        mant == NatOf(s, i1, intEnd) * Pow10(nFrac)
                    + (IF hasDot THEN NatOf(s, intEnd + 1, fracEnd) ELSE 0)
        ex == IF hasExp THEN NatOf(s, e1, expEnd) ELSE 0
        expNeg == expSigned /\ s[fracEnd + 1] = "-"
        mag == IF expNeg THEN Rat(mant, Pow10(nFrac) * Pow10(ex))
               ELSE Rat(mant * Pow10(ex), Pow10(nFrac))
    IN  IF ~wellFormed THEN Fail
        ELSE IF signed /\ s[1] = "-" THEN Ok(RNeg(mag)) ELSE Ok(mag)

(***************************************************************************)
(* parse_nutrition_value                                                   *)
(***************************************************************************)
Returned(r) == [raised |-> FALSE, val |-> r]
Raised == [raised |-> TRUE, val |-> RZero]

RangeSeps == <<WAVE, FWTILDE, TILDE, HYPHEN>>

\* [float(p) for p in parts if p]
RECURSIVE FloatsOf(_)
FloatsOf(parts) ==
    IF parts = <<>> THEN <<>>
    ELSE IF Head(parts) = <<>> THEN FloatsOf(Tail(parts))
    ELSE <<PyFloat(Head(parts))>> \o FloatsOf(Tail(parts))

\* mutant: the sides are summed and never divided by their count
MeanOfParts_NoDivision(value_str, sep) ==
    LET nums == FloatsOf(Split(value_str, sep))
    IN  IF \E i \in 1..Len(nums) : ~nums[i].ok THEN [raised |-> TRUE, val |-> [n |-> 0, d |-> 1]]
        ELSE IF Len(nums) = 0 THEN [raised |-> TRUE, val |-> [n |-> 0, d |-> 1]]
        ELSE [raised |-> FALSE, val |-> RSum([i \in 1..Len(nums) |-> nums[i].r])]

\* the body of the for loop once the first separator present is found
MeanOfParts(value_str, sep) ==
    LET nums == FloatsOf(Split(value_str, sep))
    IN  IF \E i \in 1..Len(nums) : ~nums[i].ok THEN Raised        \* ValueError
        ELSE IF Len(nums) = 0 THEN Raised                  \* ZeroDivisionError
        ELSE Returned(RDivInt(RSum([i \in 1..Len(nums) |-> nums[i].r]),
                              Len(nums)))

\* the try block, lines 290-299
ParseBody(v) ==
    IF v.type = "num" THEN Returned(v.r)
    ELSE
      LET value_str == RemoveChar(RemoveChar(PyStr(v), ","), " ")
          present == {i \in 1..Len(RangeSeps) : Contains(value_str, RangeSeps[i])}
      IN  IF present # {}
          THEN MeanOfParts(value_str,
                   RangeSeps[CHOOSE i \in present : \A j \in present : i <= j])
          ELSE LET f == PyFloat(value_str)
               IN  IF f.ok THEN Returned(f.r) ELSE Raised

\* mutant: no except clause, a failed parse propagates
parse_nutrition_value_NoExcept(v) == ParseBody(v)

\* the whole function: the bare except turns every exception into 0.0
parse_nutrition_value(v) ==
    LET b == ParseBody(v)
    IN  IF b.raised THEN Returned(RZero) ELSE b

\* the "unknown" sentinel string (fu-mei)
SENTINEL == <<"zFu", "zMei">>

\* strings the specification names
S_1500 == <<"1", "5", "0", "0">>
S_1200_1500 == <<"1", "2", "0", "0", WAVE, "1", "5", "0", "0">>
S_500_open == <<"5", "0", "0", WAVE>>
S_800_1000 == <<"8", "0", "0", WAVE, "1", "0", "0", "0">>
S_1e3 == <<"1", "e", "3">>

(***************************************************************************)
(* parse_nutrition_from_response                                           *)
(***************************************************************************)
FWCOLON == "FWCOLON"

\* the label literals of the patterns, character by character
L_dish == <<"zRyou", "zRi", "zNa">>                       \* ryouri-mei
L_energy == <<"kE", "kNe", "kRu", "kGi", "kBar">>         \* enerugii
L_proteinK == <<"kTa", "kN", "kPa", "kKu", "zShitsu">>    \* tanpaku-shitsu
L_proteinH == <<"hTa", "hN", "hPa", "hKu", "zShitsu">>    \* tanpaku-shitsu
L_salt == <<"zEn", "zBun">>                               \* enbun
L_potassium == <<"kKa", "kRi", "kU", "kMu">>              \* kariumu
L_phosphorus == <<"kRi", "kN">>                           \* rin

NutrientKeys == {"energy", "protein", "salt", "potassium", "phosphorus"}

\* patterns: the label alternatives of each key, in the order the regex lists
Patterns ==
    [energy |-> <<L_energy>>,
     protein |-> <<L_proteinK, L_proteinH>>,
     salt |-> <<L_salt>>,
     potassium |-> <<L_potassium>>,
     phosphorus |-> <<L_phosphorus>>]

\* the character class [\d,\.<U+FF5E>~\-] of the capture group
CaptureClass == Digits \cup {",", ".", FWTILDE, TILDE, HYPHEN}

\* \s, over the characters of the model
Whitespace == {" ", NL}

\* the literal lab matches text at index i
MatchAt(txt, i, lab) ==
    /\ i + Len(lab) - 1 <= Len(txt)
    /\ \A k \in 1..Len(lab) : txt[i + k - 1] = lab[k]

RECURSIVE FirstClassOnLine(_, _)
\* `.*?` then the group: the first index >= j holding a class character with
\* no line feed before it ('.' does not match a line feed); 0 when none
FirstClassOnLine(txt, j) ==
    IF j > Len(txt) \/ txt[j] = NL THEN 0
    ELSE IF txt[j] \in CaptureClass THEN j
    ELSE FirstClassOnLine(txt, j + 1)

RECURSIVE RunEnd(_, _)
\* `[...]+` is greedy: the last index of the run of class characters from j
RunEnd(txt, j) ==
    IF j + 1 <= Len(txt) /\ txt[j + 1] \in CaptureClass
    THEN RunEnd(txt, j + 1) ELSE j

NoMatch == [matched |-> FALSE, group |-> <<>>]
Match(g) == [matched |-> TRUE, group |-> g]

\* mutant: the label is not required, any class run of the text is captured
NutrientSearch_NoLabel(txt, labels) ==
    LET starts == {j \in 1..Len(txt) : txt[j] \in CaptureClass}
    IN  IF starts = {} THEN [matched |-> FALSE, group |-> <<>>]
        ELSE LET j == CHOOSE x \in starts : \A y \in starts : x <= y
             IN  [matched |-> TRUE, group |-> SubSeq(txt, j, RunEnd(txt, j))]

\* re.search(label.*?([class]+), text): leftmost start at which a label
\* alternative matches and a class run follows on the same line
NutrientSearch(txt, labels) ==
    LET ok(i, l) == /\ MatchAt(txt, i, labels[l])
                    /\ FirstClassOnLine(txt, i + Len(labels[l])) # 0
        starts == {i \in 1..Len(txt) : \E l \in 1..Len(labels) : ok(i, l)}
    IN  IF starts = {} THEN NoMatch
        ELSE LET i == CHOOSE x \in starts : \A y \in starts : x <= y
                 l == CHOOSE x \in 1..Len(labels) :
                          ok(i, x) /\ \A y \in 1..Len(labels) : ok(i, y) => x <= y
                 j == FirstClassOnLine(txt, i + Len(labels[l]))
             IN  Match(SubSeq(txt, j, RunEnd(txt, j)))

RECURSIVE ReplaceChar(_, _, _)
ReplaceChar(s, from, to) ==
    IF s = <<>> THEN <<>>
    ELSE <<IF Head(s) = from THEN to ELSE Head(s)>>
             \o ReplaceChar(Tail(s), from, to)

\* mutant: the thousands separator is kept
ExtractField_KeepComma(txt, labels) ==
    LET m == NutrientSearch(txt, labels)
    IN  IF m.matched /\ m.group # <<>>
        THEN ReplaceChar(ReplaceChar(m.group, FWTILDE, WAVE), TILDE, WAVE)
        ELSE SENTINEL

\* lines 235-240: one nutrient field
ExtractField(txt, labels) ==
    LET m == NutrientSearch(txt, labels)
    IN  IF m.matched /\ m.group # <<>>
        THEN ReplaceChar(ReplaceChar(RemoveChar(m.group, ","), FWTILDE, WAVE),
                         TILDE, WAVE)
        ELSE SENTINEL

RECURSIVE SkipWs(_, _)
\* greedy \s*: the first index >= p holding no whitespace (Len + 1 when none)
SkipWs(txt, p) ==
    IF p <= Len(txt) /\ txt[p] \in Whitespace THEN SkipWs(txt, p + 1) ELSE p

RECURSIVE LineEnd(_, _)
\* greedy `.+`: the last index of the line that holds index k
LineEnd(txt, k) ==
    IF k + 1 <= Len(txt) /\ txt[k + 1] # NL THEN LineEnd(txt, k + 1) ELSE k

\* `\s*(.+)` from index p: \s* takes all the whitespace (line feeds too) and
\* the group is the rest of the line it stops on; when only whitespace is
\* left, \s* backtracks to the last character that is no line feed
DishGroup(txt, p) ==
    LET q == SkipWs(txt, p)
        back == {k \in p..Len(txt) : txt[k] # NL}
    IN  IF q <= Len(txt) THEN Match(SubSeq(txt, q, LineEnd(txt, q)))
        ELSE IF back = {} THEN NoMatch
        ELSE LET k == CHOOSE x \in back : \A y \in back : y <= x
             IN  Match(SubSeq(txt, k, LineEnd(txt, k)))

\* re.search(dish-label[colon]\s*(.+), text)
DishSearch(txt) ==
    LET ok(i) == /\ MatchAt(txt, i, L_dish)
                 /\ i + Len(L_dish) <= Len(txt)
                 /\ txt[i + Len(L_dish)] \in {":", FWCOLON}
                 /\ DishGroup(txt, i + Len(L_dish) + 1).matched
        starts == {i \in 1..Len(txt) : ok(i)}
    IN  IF starts = {} THEN NoMatch
        ELSE DishGroup(txt, (CHOOSE x \in starts : \A y \in starts : x <= y)
                                + Len(L_dish) + 1)

RECURSIVE LStrip(_)
LStrip(s) == IF s # <<>> /\ Head(s) \in Whitespace THEN LStrip(Tail(s)) ELSE s

RECURSIVE RStrip(_)
RStrip(s) ==
    IF s # <<>> /\ s[Len(s)] \in Whitespace
    THEN RStrip(SubSeq(s, 1, Len(s) - 1)) ELSE s

\* str.strip()
Strip(s) == RStrip(LStrip(s))

\* lines 218-222
ExtractMealName(txt) ==
    LET m == DishSearch(txt)
    IN  IF m.matched THEN Strip(m.group) ELSE SENTINEL

parse_nutrition_from_response(txt) ==
    [meal_name |-> ExtractMealName(txt),
     energy |-> ExtractField(txt, Patterns.energy),
     protein |-> ExtractField(txt, Patterns.protein),
     salt |-> ExtractField(txt, Patterns.salt),
     potassium |-> ExtractField(txt, Patterns.potassium),
     phosphorus |-> ExtractField(txt, Patterns.phosphorus)]

(***************************************************************************)
(* classify_meal_type                                                      *)
(***************************************************************************)
\* int(str): surrounding whitespace stripped, optional sign, digits.  Digit
\* group underscores lie outside the enumerated alphabet and are not modelled.
PyInt(s) ==
    LET t == Strip(s)
        signed == Len(t) >= 1 /\ t[1] \in {"+", "-"}
        i1 == IF signed THEN 2 ELSE 1
        n == NatOf(t, i1, Len(t) + 1)
    IN  IF i1 <= Len(t) /\ DigitsEnd(t, i1) = Len(t) + 1
        THEN [ok |-> TRUE, i |-> IF signed /\ t[1] = "-" THEN -n ELSE n]
        ELSE [ok |-> FALSE, i |-> 0]

BREAKFAST == "Breakfast"      \* choushoku
LUNCH == "Lunch"              \* chuushoku
DINNER == "Dinner"            \* yuushoku
LATE_NIGHT == "LateNight"     \* yashoku
UNKNOWN_SLOT == "Unknown"     \* fumei

SlotRaised == [raised |-> TRUE, slot |-> UNKNOWN_SLOT]
SlotReturned(s) == [raised |-> FALSE, slot |-> s]

\* mutant: the breakfast slot ends one hour late
ClassifyBody_LateBoundary(v) ==
    IF v.type # "str" THEN [raised |-> TRUE, slot |-> "Unknown"]
    ELSE LET h == PyInt(Split(v.s, ":")[1])
         IN  IF ~h.ok THEN [raised |-> TRUE, slot |-> "Unknown"]
             ELSE IF 5 <= h.i /\ h.i <= 10 THEN [raised |-> FALSE, slot |-> "Breakfast"]
             ELSE IF 10 <= h.i /\ h.i < 15 THEN [raised |-> FALSE, slot |-> "Lunch"]
             ELSE IF 15 <= h.i /\ h.i < 22 THEN [raised |-> FALSE, slot |-> "Dinner"]
             ELSE [raised |-> FALSE, slot |-> "LateNight"]

\* the try block, lines 272-283
ClassifyBody(v) ==
    IF v.type # "str" THEN SlotRaised                  \* no split: AttributeError
    ELSE LET hour == PyInt(Split(v.s, ":")[1])
         IN  IF ~hour.ok THEN SlotRaised                \* ValueError
             ELSE IF 5 <= hour.i /\ hour.i < 10 THEN SlotReturned(BREAKFAST)
             ELSE IF 10 <= hour.i /\ hour.i < 15 THEN SlotReturned(LUNCH)
             ELSE IF 15 <= hour.i /\ hour.i < 22 THEN SlotReturned(DINNER)
             ELSE SlotReturned(LATE_NIGHT)

\* the whole function: the bare except returns the unknown slot
classify_meal_type(v) ==
    LET b == ClassifyBody(v)
    IN  IF b.raised THEN SlotReturned(UNKNOWN_SLOT) ELSE b

(***************************************************************************)
(* Rows of the log as get_all_records returns them: dicts from column      *)
(* label to cell value.  Column labels (keys), romanized:                  *)
(*   K_DATE hizuke     K_TIME jikoku    K_NAME namae                       *)
(*   K_SLOT shokuji-kubun (added by the filter loop)                       *)
(***************************************************************************)
K_DATE == "Hizuke"
K_TIME == "Jikoku"
K_NAME == "Namae"
K_SLOT == "ShokujiKubun"
K_ENERGY == "Energy(kcal)"
K_PROTEIN == "Tanpakushitsu(g)"
K_SALT == "Enbun(g)"
K_POTASSIUM == "Kariumu(mg)"
K_PHOSPHORUS == "Rin(mg)"

\* the column each nutrient total reads
ColumnOf ==
    [energy |-> K_ENERGY, protein |-> K_PROTEIN, salt |-> K_SALT,
     potassium |-> K_POTASSIUM, phosphorus |-> K_PHOSPHORUS]

\* dict.get(key, default)
Get(row, key, default) == IF key \in DOMAIN row THEN row[key] ELSE default

\* truth value of a cell value
Truthy(v) ==
    CASE v.type = "str" -> v.s # <<>>
      [] v.type = "num" -> v.r.n # 0
      [] OTHER -> FALSE

\* the 'all users' entry of the selectbox (zen-in)
ALL_USERS == Str(<<"zZen", "zIn">>)

(***************************************************************************)
(* datetime.strptime(s, '%Y-%m-%d').date(): four digits, '-', a month      *)
(* 1[0-2]|0[1-9]|[1-9], '-', a day 3[01]|[12]\d|0[1-9]|[1-9]| [1-9], no    *)
(* text left over, and a date that exists.  Dates are <<year, month, day>>.*)
(***************************************************************************)
DateFail == [ok |-> FALSE, date |-> <<0, 0, 0>>]
DateOk(d) == [ok |-> TRUE, date |-> d]

IsLeap(y) == y % 4 = 0 /\ (y % 100 # 0 \/ y % 400 = 0)

DaysInMonth(y, m) ==
    IF m = 2 THEN (IF IsLeap(y) THEN 29 ELSE 28)
    ELSE IF m \in {4, 6, 9, 11} THEN 30 ELSE 31

NonZeroDigits == Digits \ {"0"}

\* the month directive matches m entirely
MonthText(m) ==
    \/ Len(m) = 2 /\ m[1] = "1" /\ m[2] \in {"0", "1", "2"}
    \/ Len(m) = 2 /\ m[1] = "0" /\ m[2] \in NonZeroDigits
    \/ Len(m) = 1 /\ m[1] \in NonZeroDigits

\* the day directive matches d entirely
DayText(d) ==
    \/ Len(d) = 2 /\ d[1] = "3" /\ d[2] \in {"0", "1"}
    \/ Len(d) = 2 /\ d[1] \in {"1", "2"} /\ d[2] \in Digits
    \/ Len(d) = 2 /\ d[1] = "0" /\ d[2] \in NonZeroDigits
    \/ Len(d) = 1 /\ d[1] \in NonZeroDigits
    \/ Len(d) = 2 /\ d[1] = " " /\ d[2] \in NonZeroDigits

Strptime(v) ==
    IF v.type # "str" THEN DateFail                                \* TypeError
    ELSE
      LET s == v.s
          yearOk == /\ Len(s) >= 5
                    /\ \A i \in 1..4 : s[i] \in Digits
                    /\ s[5] = "-"
          dash2 == IF Len(s) >= 7 /\ s[7] = "-" THEN 7
                   ELSE IF Len(s) >= 8 /\ s[8] = "-" THEN 8 ELSE 0
          mText == SubSeq(s, 6, dash2 - 1)
          dText == SubSeq(s, dash2 + 1, Len(s))
          y == NatOf(s, 1, 5)
          m == NatOf(mText, 1, Len(mText) + 1)
          d == NatOf(LStrip(dText), 1, Len(LStrip(dText)) + 1)
      IN  IF yearOk /\ dash2 # 0 /\ MonthText(mText) /\ DayText(dText)
             /\ y >= 1 /\ d <= DaysInMonth(y, m)
          THEN DateOk(<<y, m, d>>)
          ELSE DateFail                                           \* ValueError

\* a <= b for dates
DateLE(a, b) ==
    \/ a[1] < b[1]
    \/ a[1] = b[1] /\ a[2] < b[2]
    \/ a[1] = b[1] /\ a[2] = b[2] /\ a[3] <= b[3]

(***************************************************************************)
(* The filter loop, lines 695-716.                                         *)
(***************************************************************************)
\* lines 698-705: the date filter lets the row through
PassesDate(row, start, end) ==
    LET record_date_str == Get(row, K_DATE, Str(<<>>))
        p == Strptime(record_date_str)
    IN  IF Truthy(record_date_str)
        THEN p.ok /\ DateLE(start, p.date) /\ DateLE(p.date, end)
        ELSE TRUE               \* an empty or missing date skips the date test

\* lines 708-710: the user filter lets the row through
PassesUser(row, user) ==
    user # ALL_USERS => Get(row, K_NAME, None) = user

\* mutant: the meal slot is stored under the name column
MarkRow_WrongKey(row) ==
    [k \in DOMAIN row \cup {"Namae"} |->
        IF k = "Namae"
        THEN Str(<<classify_meal_type(Get(row, "Jikoku", Str(<<>>))).slot>>)
        ELSE row[k]]

\* lines 713-714: the row gets its meal slot
MarkRow(row) ==
    [k \in DOMAIN row \cup {K_SLOT} |->
        IF k = K_SLOT
        THEN Str(<<classify_meal_type(Get(row, K_TIME, Str(<<>>))).slot>>)
        ELSE row[k]]

\* mutant: the end date is excluded
KeepRow_EndExclusive(row, user, start, end) ==
    /\ LET v == Get(row, "Hizuke", Str(<<>>))
           p == Strptime(v)
       IN  IF Truthy(v)
           THEN p.ok /\ DateLE(start, p.date) /\ DateLE(p.date, end)
                     /\ p.date # end
           ELSE TRUE
    /\ PassesUser(row, user)

KeepRow(row, user, start, end) ==
    PassesDate(row, start, end) /\ PassesUser(row, user)

RECURSIVE FilterLoop(_, _, _, _)
FilterLoop(records, user, start, end) ==
    IF records = <<>> THEN <<>>
    ELSE (IF KeepRow(Head(records), user, start, end)
          THEN <<MarkRow(Head(records))>> ELSE <<>>)
             \o FilterLoop(Tail(records), user, start, end)

\* the rows of all_records after the loop: the kept dicts were changed in place
RowsAfterLoop(records, user, start, end) ==
    [i \in 1..Len(records) |->
        IF KeepRow(records[i], user, start, end)
        THEN MarkRow(records[i]) ELSE records[i]]

(***************************************************************************)
(* filtered_records.sort(key=(date, time)), lines 718-719: a stable sort   *)
(* on a pair of cell values; strings compare by code point, and values of  *)
(* different types do not compare (TypeError).                             *)
(***************************************************************************)
CodePoint(c) ==
    CASE c = " " -> 32 [] c = "-" -> 45 [] c = "/" -> 47
      [] c \in Digits -> 48 + DigitVal(c)
      [] c = ":" -> 58
      [] c = "a" -> 97 [] c = "b" -> 98 [] c = "d" -> 100 [] c = "x" -> 120
      [] OTHER -> 12288

RECURSIVE StrLess(_, _)
StrLess(a, b) ==
    IF b = <<>> THEN FALSE
    ELSE IF a = <<>> THEN TRUE
    ELSE IF Head(a) = Head(b) THEN StrLess(Tail(a), Tail(b))
    ELSE CodePoint(Head(a)) < CodePoint(Head(b))

\* a < b is defined for the two cell values
Comparable(a, b) == a.type = b.type /\ a.type \in {"str", "num"}

ValueLess(a, b) ==
    IF a.type = "str" THEN StrLess(a.s, b.s)
    ELSE a.r.n * b.r.d < b.r.n * a.r.d

SortKey(row) == <<Get(row, K_DATE, Str(<<>>)), Get(row, K_TIME, Str(<<>>))>>

\* tuple comparison: the first components that differ decide
KeyComparable(x, y) ==
    IF x[1] # y[1] THEN Comparable(x[1], y[1])
    ELSE IF x[2] # y[2] THEN Comparable(x[2], y[2])
    ELSE TRUE

KeyLess(x, y) ==
    IF x[1] # y[1] THEN ValueLess(x[1], y[1])
    ELSE IF x[2] # y[2] THEN ValueLess(x[2], y[2])
    ELSE FALSE

SortRaises(rows) ==
    \E i, j \in 1..Len(rows) : ~KeyComparable(SortKey(rows[i]), SortKey(rows[j]))

RECURSIVE InsertSorted(_, _)
\* row goes after every row whose key is not greater: the sort is stable
InsertSorted(sorted, row) ==
    IF sorted = <<>> THEN <<row>>
    ELSE IF KeyLess(SortKey(row), SortKey(Head(sorted)))
    THEN <<row>> \o sorted
    ELSE <<Head(sorted)>> \o InsertSorted(Tail(sorted), row)

RECURSIVE SortRows(_)
SortRows(rows) ==
    IF rows = <<>> THEN <<>>
    ELSE InsertSorted(SortRows(SubSeq(rows, 1, Len(rows) - 1)), rows[Len(rows)])

(***************************************************************************)
(* The period summary, lines 727-738.                                      *)
(***************************************************************************)
\* sum(parse_nutrition_value(r.get(column, 0)) for r in filtered_records)
RECURSIVE TotalOf(_, _)
TotalOf(rows, column) ==
    IF rows = <<>> THEN RZero
    ELSE RAdd(parse_nutrition_value(Get(Head(rows), column, Num(RZero))).val,
              TotalOf(Tail(rows), column))

\* set(r.get(date) for r in filtered_records if r.get(date))
UniqueDates(rows) ==
    {Get(rows[i], K_DATE, None) : i \in {j \in 1..Len(rows) :
                                           Truthy(Get(rows[j], K_DATE, None))}}

(***************************************************************************)
(* The averages of the period summary, lines 745-754: the quotient is      *)
(* written with a fixed number of decimals and a unit.  A quotient halfway *)
(* between two written values is a dyadic rational for the logs of the     *)
(* model, so the float is exact and the even neighbour is written.         *)
(***************************************************************************)
DigitChar(n) ==
    CASE n = 0 -> "0" [] n = 1 -> "1" [] n = 2 -> "2" [] n = 3 -> "3"
      [] n = 4 -> "4" [] n = 5 -> "5" [] n = 6 -> "6" [] n = 7 -> "7"
      [] n = 8 -> "8" [] n = 9 -> "9"

RECURSIVE NatStr(_)
NatStr(n) ==
    IF n < 10 THEN <<DigitChar(n)>> ELSE NatStr(n \div 10) \o <<DigitChar(n % 10)>>

\* the digits of the value x = n/d rounded to `decimals` decimals
FixedDigits(x, decimals) ==
    LET num == Abs(x.n) * Pow10(decimals)
        q == num \div x.d
        rem == num % x.d
        rounded == IF 2 * rem > x.d \/ (2 * rem = x.d /\ q % 2 = 1)
                   THEN q + 1 ELSE q
        body == IF decimals = 0 THEN NatStr(rounded)
                ELSE NatStr(rounded \div 10) \o <<".">> \o <<DigitChar(rounded % 10)>>
    IN  (IF x.n < 0 THEN <<"-">> ELSE <<>>) \o body

\* f"{r:.0f}" when decimals = 0 and f"{r:.1f}" when decimals = 1; the
\* quotient r is evaluated once
FormatFixed(r, decimals) ==
    CHOOSE out \in {FixedDigits(x, decimals) : x \in {r}} : TRUE

\* the nutrients whose averages the summary shows
AveragedKeys == {"energy", "protein", "salt"}

DecimalsOf(k) == IF k = "energy" THEN 0 ELSE 1

MetricUnit(k) ==
    IF k = "energy" THEN <<" ", "k", "c", "a", "l">> ELSE <<" ", "g">>

\* f"{total/count:.Nf} unit" if count else "0 unit"
Metric(total, count, k) ==
    IF count # 0
    THEN FormatFixed(RDivInt(total, count), DecimalsOf(k)) \o MetricUnit(k)
    ELSE <<"0">> \o MetricUnit(k)

\* lines 746-748
PerMealMetric(total, meal_count, day_count, k) == Metric(total, meal_count, k)

\* mutant: the per-day metric divides by the meal count
PerDayMetric_ByMeals(total, meal_count, day_count, k) == Metric(total, meal_count, k)

\* lines 751-753
PerDayMetric(total, meal_count, day_count, k) == Metric(total, day_count, k)

\* len(unique_dates) if unique_dates else 1
DayCount(rows) ==
    IF UniqueDates(rows) = {} THEN 1 ELSE Cardinality(UniqueDates(rows))

\* lines 728-732: the five totals
Totals(rows) == [k \in NutrientKeys |-> TotalOf(rows, ColumnOf[k])]

SummaryFrom(total, meal_count, day_count) ==
    [total |-> total,
     meal_count |-> meal_count,
     day_count |-> day_count,
     per_meal |-> [k \in AveragedKeys |->
                      PerMealMetric(total[k], meal_count, day_count, k)],
     per_day |-> [k \in AveragedKeys |->
                     PerDayMetric(total[k], meal_count, day_count, k)]]

\* the totals and the day count are computed once, then shown
SummaryOf(rows, meal_count) ==
    CHOOSE out \in {SummaryFrom(total, meal_count, day_count) :
                       total \in {Totals(rows)}, day_count \in {DayCount(rows)}} :
        TRUE

\* mutant: rows whose energy is not a number are left out of the meal count
PeriodSummary_CountsParsed(rows) ==
    SummaryOf(rows, Cardinality({i \in 1..Len(rows) :
                  parse_nutrition_value(
                      Get(rows[i], "Energy(kcal)", Num(RZero))).val # RZero}))

PeriodSummary(rows) == SummaryOf(rows, Len(rows))

NoSummary ==
    [total |-> [k \in NutrientKeys |-> RZero], meal_count |-> 0, day_count |-> 0,
     per_meal |-> [k \in AveragedKeys |-> <<>>],
     per_day |-> [k \in AveragedKeys |-> <<>>]]

(***************************************************************************)
(* The summary row of the printable report, lines 829-836, shown by        *)
(* generate_html_report under the heading 'period summary (daily           *)
(* average)', lines 471-495.                                               *)
(***************************************************************************)
ReportDecimals(k) == IF k \in {"protein", "salt"} THEN 1 ELSE 0

\* f"{total/meal_count:.Nf}" if meal_count else "0"
ReportAverage(total, meal_count, day_count, k) ==
    IF meal_count # 0
    THEN FormatFixed(RDivInt(total, meal_count), ReportDecimals(k))
    ELSE <<"0">>

SummaryData(total, meal_count, day_count) ==
    [avg |-> [k \in NutrientKeys |->
                 ReportAverage(total[k], meal_count, day_count, k)],
     day_count |-> NatStr(day_count)]

NoSummaryData == [avg |-> [k \in NutrientKeys |-> <<>>], day_count |-> <<>>]

(***************************************************************************)
(* The daily aggregation, lines 760-781: a dict from the date cell to the  *)
(* five sums, kept here as the sequence of its items in insertion order,   *)
(* then one data-frame row per item of sorted(daily_data.items()).         *)
(***************************************************************************)
DateKey(record) == Get(record, K_DATE, Str(<<>>))

NewDay(date_key) == [date |-> date_key, sums |-> [k \in NutrientKeys |-> RZero]]

\* the five += of lines 766-770
AddTo(item, record) ==
    [item EXCEPT !.sums =
        [k \in NutrientKeys |->
            RAdd(item.sums[k],
                 parse_nutrition_value(Get(record, ColumnOf[k], Num(RZero))).val)]]

\* one pass of the loop body, lines 763-770
AddMeal(items, record) ==
    LET date_key == DateKey(record)
        present == \E i \in 1..Len(items) : items[i].date = date_key
        opened == IF present THEN items ELSE Append(items, NewDay(date_key))
    IN  [i \in 1..Len(opened) |->
            IF opened[i].date = date_key THEN AddTo(opened[i], record)
            ELSE opened[i]]

RECURSIVE DailyData(_)
DailyData(rows) ==
    IF rows = <<>> THEN <<>>
    ELSE CHOOSE out \in {AddMeal(items, rows[Len(rows)]) :
                            items \in {DailyData(SubSeq(rows, 1, Len(rows) - 1))}} :
             TRUE

\* sorted() compares the keys of the items; two keys of different types raise
ItemsSortRaise(items) ==
    \E i, j \in 1..Len(items) :
        items[i].date # items[j].date /\ ~Comparable(items[i].date, items[j].date)

RECURSIVE InsertItem(_, _)
InsertItem(sorted, item) ==
    IF sorted = <<>> THEN <<item>>
    ELSE IF ValueLess(item.date, Head(sorted).date)
    THEN <<item>> \o sorted
    ELSE <<Head(sorted)>> \o InsertItem(Tail(sorted), item)

RECURSIVE SortedItems(_)
SortedItems(items) ==
    IF items = <<>> THEN <<>>
    ELSE CHOOSE out \in {InsertItem(sorted, items[Len(items)]) :
                            sorted \in {SortedItems(SubSeq(items, 1, Len(items) - 1))}} :
             TRUE

\* line 308: strptime of every date of the data frame
ChartRaises(df) == \E i \in 1..Len(df) : ~Strptime(df[i].date).ok

(***************************************************************************)
(* Response texts: every concatenation of at most MaxPieces pieces (labels *)
(* and single characters), the texts the specification names, and texts in *)
(* the output format the prompt asks for (lines 991-999).                  *)
(***************************************************************************)
Pieces ==
    {L_dish, L_energy, L_proteinK, L_proteinH, L_salt, L_potassium, L_phosphorus,
     <<"5">>, <<",">>, <<".">>, <<FWTILDE>>, <<HYPHEN>>, <<WAVE>>, <<":">>,
     <<NL>>, <<" ">>, <<"x">>}

RECURSIVE Flatten(_)
Flatten(ss) == IF ss = <<>> THEN <<>> ELSE Head(ss) \o Flatten(Tail(ss))

PieceTexts ==
    {Flatten(ps) : ps \in UNION {[1..n -> Pieces] : n \in 0..MaxPieces}}

T_potassium(glyph) ==
    L_potassium \o <<":", " ", "8", "0", "0", glyph, "1", "0", "0", "0",
                     " ", "m", "g">>

NamedTexts == {T_potassium(g) : g \in {WAVE, FWTILDE, TILDE, HYPHEN}}

Dish_YakiZake == <<"zYaki", "hKi", "zSake">>               \* grilled salmon
Dish_Curry2 == <<"kKa", "kRe", "kBar", " ", "2", "zSara">>  \* two plates of curry

N_350 == <<"3", "5", "0">>
N_25 == <<"2", "5">>
N_1200 == <<"1", ",", "2", "0", "0">>
N_2_5 == <<"2", ".", "5">>
Absent == <<>>

\* the numbers a formatted text may write for each nutrient
NumberSamples ==
    [energy |-> {N_350, N_1200}, protein |-> {N_25, N_2_5}, salt |-> {N_2_5},
     potassium |-> {N_350, N_1200}, phosphorus |-> {N_350}]

NoDoc ==
    [fmt |-> FALSE, dish |-> <<>>, bold |-> FALSE, hira |-> FALSE,
     nums |-> [k \in NutrientKeys |-> Absent]]

Docs ==
    [fmt : {TRUE}, dish : {Dish_YakiZake, Dish_Curry2}, bold : BOOLEAN,
     hira : BOOLEAN,
     nums : {f \in [NutrientKeys -> {N_350, N_25, N_1200, N_2_5, Absent}] :
                \A k \in NutrientKeys : f[k] \in NumberSamples[k] \cup {Absent}}]

KeyOrder == <<"energy", "protein", "salt", "potassium", "phosphorus">>

UnitOf(k) ==
    CASE k = "energy" -> <<"k", "c", "a", "l">>
      [] k \in {"protein", "salt"} -> <<"g">>
      [] OTHER -> <<"m", "g">>

LabelOf(d, k) ==
    CASE k = "energy" -> L_energy
      [] k = "protein" -> (IF d.hira THEN L_proteinH ELSE L_proteinK)
      [] k = "salt" -> L_salt
      [] k = "potassium" -> L_potassium
      [] OTHER -> L_phosphorus

\* "- label: number unit", or "- **label**: number unit" as the prompt writes it
NutrientLine(d, k) ==
    LET stars == IF d.bold THEN <<"*", "*">> ELSE <<>>
    IN  <<NL, "-", " ">> \o stars \o LabelOf(d, k) \o stars \o <<":", " ">>
            \o d.nums[k] \o <<" ">> \o UnitOf(k)

RECURSIVE NutrientLines(_, _)
NutrientLines(d, i) ==
    IF i > Len(KeyOrder) THEN <<>>
    ELSE (IF d.nums[KeyOrder[i]] = Absent THEN <<>>
          ELSE NutrientLine(d, KeyOrder[i])) \o NutrientLines(d, i + 1)

Render(d) ==
    <<"#", "#", " ">> \o L_dish \o <<":", " ">> \o d.dish \o NutrientLines(d, 1)

NoNutrition ==
    [meal_name |-> <<>>, energy |-> <<>>, protein |-> <<>>, salt |-> <<>>,
     potassium |-> <<>>, phosphorus |-> <<>>]

NoNormalized == [k \in NutrientKeys |-> RZero]

NormIdle == value = None /\ outcome = Returned(RZero)

ExtractIdle ==
    /\ text = <<>>
    /\ doc = NoDoc
    /\ nutrition = NoNutrition
    /\ normalized = NoNormalized

(***************************************************************************)
(* Time values: every string over TimeAlphabet of length <= MaxTimeLen,    *)
(* the strings the specification names, and non-string cell values.        *)
(***************************************************************************)
TimeAlphabet == {"0", "1", "2", "4", "5", "9", ":", "-", " ", "x"}

TimeStrings == UNION {[1..n -> TimeAlphabet] : n \in 0..MaxTimeLen}

T_0730 == <<"0", "7", ":", "3", "0", ":", "0", "0">>
T_1200 == <<"1", "2", ":", "0", "0", ":", "0", "0">>
T_1845 == <<"1", "8", ":", "4", "5", ":", "0", "0">>
T_0200 == <<"0", "2", ":", "0", "0", ":", "0", "0">>
T_bad == <<"b", "a", "d">>

TimeInputs ==
    {Str(s) : s \in TimeStrings \cup {T_0730, T_1200, T_1845, T_0200, T_bad}}
        \cup {None, Num(RInt(730))}

ClassifyIdle == time_str = None /\ meal_type = SlotReturned(UNKNOWN_SLOT)

(***************************************************************************)
(* Logs: every sequence of 1..MaxRecords rows drawn from SampleRows, which *)
(* hold well-formed rows, rows of older schemas that lack columns, and     *)
(* rows with empty, missing and malformed dates and nutrient cells.        *)
(***************************************************************************)
D_0531 == <<"2", "0", "2", "4", "-", "0", "5", "-", "3", "1">>
D_0601 == <<"2", "0", "2", "4", "-", "0", "6", "-", "0", "1">>
D_0602 == <<"2", "0", "2", "4", "-", "0", "6", "-", "0", "2">>
D_0603 == <<"2", "0", "2", "4", "-", "0", "6", "-", "0", "3">>
D_0603_unpadded == <<"2", "0", "2", "4", "-", "6", "-", "3">>
D_feb30 == <<"2", "0", "2", "4", "-", "0", "2", "-", "3", "0">>
D_slash == <<"2", "0", "2", "4", "/", "0", "6", "/", "0", "1">>

T_0800 == <<"0", "8", ":", "0", "0", ":", "0", "0">>
T_1900 == <<"1", "9", ":", "0", "0", ":", "0", "0">>

U_A == <<"A">>
U_a == <<"a">>
U_B == <<"B">>

R_breakfast ==
    (K_DATE :> Str(D_0601)) @@ (K_TIME :> Str(T_0800)) @@ (K_NAME :> Str(U_A))
      @@ (K_ENERGY :> Num(RInt(500))) @@ (K_PROTEIN :> Num(RInt(20)))
      @@ (K_SALT :> Str(N_2_5)) @@ (K_POTASSIUM :> Str(S_800_1000))
      @@ (K_PHOSPHORUS :> Num(RInt(300)))

R_dinner ==
    (K_DATE :> Str(D_0601)) @@ (K_TIME :> Str(T_1900)) @@ (K_NAME :> Str(U_A))
      @@ (K_ENERGY :> Num(RInt(700))) @@ (K_PROTEIN :> Str(SENTINEL))
      @@ (K_SALT :> Str(SENTINEL)) @@ (K_POTASSIUM :> Str(SENTINEL))
      @@ (K_PHOSPHORUS :> Str(SENTINEL))

\* a row of an older schema: three nutrient columns are missing
R_lunch ==
    (K_DATE :> Str(D_0602)) @@ (K_TIME :> Str(T_1200)) @@ (K_NAME :> Str(U_B))
      @@ (K_ENERGY :> Str(N_1200)) @@ (K_PROTEIN :> Num(Rat(5, 2)))

R_emptyDate ==
    (K_DATE :> Str(<<>>)) @@ (K_TIME :> Str(T_0730)) @@ (K_NAME :> Str(U_A))
      @@ (K_ENERGY :> Str(SENTINEL)) @@ (K_PROTEIN :> Str(<<"x">>))
      @@ (K_SALT :> Num(RInt(1))) @@ (K_POTASSIUM :> Str(<<>>))
      @@ (K_PHOSPHORUS :> Num(RInt(7)))

R_noDate == (K_NAME :> Str(U_B)) @@ (K_TIME :> Str(T_bad))

R_feb30 ==
    (K_DATE :> Str(D_feb30)) @@ (K_TIME :> Str(T_0800)) @@ (K_NAME :> Str(U_A))
      @@ (K_ENERGY :> Num(RInt(10)))

R_slash ==
    (K_DATE :> Str(D_slash)) @@ (K_TIME :> Str(T_0800)) @@ (K_NAME :> Str(U_B))
      @@ (K_ENERGY :> Num(RInt(20)))

\* a date cell that the sheet returned as a number
R_numDate ==
    (K_DATE :> Num(RInt(20240601))) @@ (K_TIME :> Str(T_0800))
      @@ (K_NAME :> Str(U_a)) @@ (K_ENERGY :> Num(RInt(30)))

R_unpadded ==
    (K_DATE :> Str(D_0603_unpadded)) @@ (K_NAME :> Str(U_a))
      @@ (K_ENERGY :> Str(<<"3", "0", "0", WAVE, "5", "0", "0">>))
      @@ (K_PROTEIN :> Str(<<"1", "e", "1">>))

R_may ==
    (K_DATE :> Str(D_0531)) @@ (K_TIME :> Str(T_1845)) @@ (K_NAME :> Str(U_B))
      @@ (K_ENERGY :> Num(RInt(40)))

\* the same day as R_unpadded, written with zero padding
R_june3 ==
    (K_DATE :> Str(D_0603)) @@ (K_TIME :> Str(T_0730)) @@ (K_NAME :> Str(U_a))
      @@ (K_ENERGY :> Num(RInt(50))) @@ (K_SALT :> Num(Rat(1, 2)))

SampleRows ==
    {R_breakfast, R_dinner, R_lunch, R_emptyDate, R_noDate, R_feb30, R_slash,
     R_numDate, R_unpadded, R_may, R_june3}

Logs == UNION {[1..n -> SampleRows] : n \in 1..MaxRecords}

\* the values of the two st.date_input widgets
DateChoices == {<<2024, 6, 1>>, <<2024, 6, 2>>, <<2024, 6, 3>>}

\* lines 674-675 and 682: the selectbox offers 'all' and the names of the log
UserChoices(records) ==
    {ALL_USERS} \cup
        {Get(records[i], K_NAME, Str(<<>>)) :
            i \in {j \in 1..Len(records) : Truthy(Get(records[j], K_NAME, None))}}

ReportIdle ==
    /\ all_records = <<>>
    /\ selected_user = ALL_USERS
    /\ start_date = <<2024, 6, 1>>
    /\ end_date = <<2024, 6, 1>>
    /\ filtered_records = <<>>
    /\ refiltered = <<>>
    /\ summary = NoSummary
    /\ daily_data = <<>>
    /\ chart_df = <<>>
    /\ summary_data = NoSummaryData

(***************************************************************************)
(* The log store: Google Drive holds any number of spreadsheets with the   *)
(* log's name (gc.create always makes a new file), and gc.open returns one *)
(* of them.  A sheet is the sequence of its rows, a row the sequence of    *)
(* its eleven cells.  Header labels are one-token strings (romanized):     *)
(*   H_TIME jikan   H_USER yuuzaa   H_DISH ryourimei                       *)
(*   H_PHOTO shokuji-shashin   H_FULLTEXT kaiseki-kekka-zenbun             *)
(***************************************************************************)
H_TIME == "Jikan"
H_USER == "Yuuzaa"
H_DISH == "Ryourimei"
H_PHOTO == "ShokujiShashin"
H_FULLTEXT == "KaisekiKekkaZenbun"

\* line 136: the header row that get_or_create_spreadsheet writes
HEADER ==
    <<Str(<<K_DATE>>), Str(<<H_TIME>>), Str(<<H_USER>>), Str(<<H_DISH>>),
      Str(<<H_PHOTO>>), Str(<<K_ENERGY>>), Str(<<K_PROTEIN>>), Str(<<K_SALT>>),
      Str(<<K_POTASSIUM>>), Str(<<K_PHOSPHORUS>>), Str(<<H_FULLTEXT>>)>>

\* worksheet.update('A1:K1', [header]): row 1 is written over
UpdateHeader(sheet) ==
    IF sheet = <<>> THEN <<HEADER>> ELSE [sheet EXCEPT ![1] = HEADER]

\* upload_image_to_gas returns the file's URL, or None on any failure
NoUrl == None
PhotoUrl == Str(<<"u", "r", "l">>)

\* line 188: image_formula
ImageFormula(image_url) ==
    IF Truthy(image_url)
    THEN <<"=", "I", "M", "A", "G", "E", "(", "\"">> \o image_url.s \o <<"\"", ")">>
    ELSE <<>>

\* the wall clock reading of each tick: now.strftime of lines 191-192
ClockDate == D_0601
ClockTimes == <<T_0730, T_1200, T_1845>>

\* lines 190-202: the row that log_to_spreadsheet appends
LogRow(tick, nickname, meal_name, nutrition_data, full_text, image_url) ==
    <<Str(ClockDate), Str(ClockTimes[tick]), Str(nickname), Str(meal_name),
      Str(ImageFormula(image_url)), Str(nutrition_data.energy),
      Str(nutrition_data.protein), Str(nutrition_data.salt),
      Str(nutrition_data.potassium), Str(nutrition_data.phosphorus),
      Str(full_text)>>

\* worksheet.get_all_records() turns a cell that reads as a number into one
Numericise(v) ==
    IF v.type = "str" /\ PyFloat(v.s).ok THEN Num(PyFloat(v.s).r) ELSE v

\* the dict key of a header cell
HeaderKey(v) == IF v.type = "str" /\ Len(v.s) = 1 THEN v.s[1] ELSE "Cell"

HeaderKeys(sheet) == {HeaderKey(sheet[1][c]) : c \in 1..Len(sheet[1])}

\* worksheet.get_all_records(): row 1 gives the keys, every later row a dict.
\* A sheet with a data row as its first row and further rows below it is not
\* reached by two sessions; its keys would not be unique.
SheetRecords(sheet) ==
    IF Len(sheet) <= 1 THEN <<>>
    ELSE IF Cardinality(HeaderKeys(sheet)) # Len(sheet[1]) THEN <<>>
    ELSE [i \in 1..(Len(sheet) - 1) |->
             [key \in HeaderKeys(sheet) |->
                 Numericise(sheet[i + 1][CHOOSE c \in 1..Len(sheet[1]) :
                                             HeaderKey(sheet[1][c]) = key])]]

\* the answers of the model that the flow handles: a formatted answer, an
\* answer without any label, and no answer
AnswerDoc ==
    [fmt |-> TRUE, dish |-> Dish_YakiZake, bold |-> FALSE, hira |-> FALSE,
     nums |-> [energy |-> N_350, protein |-> N_25, salt |-> N_2_5,
               potassium |-> N_1200, phosphorus |-> Absent]]

Answers == {Render(AnswerDoc), <<"x">>, <<>>}

Sessions == {"s1", "s2"}

NicknameOf == [s1 |-> U_A, s2 |-> U_B]

NewSession(nickname, result_text) ==
    [at |-> "answer", nickname |-> nickname, result_text |-> result_text,
     shown |-> FALSE, image_url |-> NoUrl, sheet |-> 0, now |-> 0,
     failed |-> "none", saved |-> "pending"]

LogIdle ==
    /\ gc = FALSE
    /\ drive = <<>>
    /\ sessions = [s \in Sessions |-> NewSession(<<>>, <<>>)]
    /\ clock = 1
    /\ read = "none"

(***************************************************************************)
(* The admin sidebar, lines 626-655, and the main content branch, lines    *)
(* 657-665 and 859.  st.session_state is kept per browser session; here it *)
(* is the function from the admin keys it holds to their values.           *)
(***************************************************************************)
FlagKeys == {"admin_mode", "admin_authenticated"}

\* a session that has not yet run the sidebar holds neither key
EmptyState == [k \in {} |-> FALSE]

\* lines 630-633: a missing key is set to False
WithDefaults(state) ==
    [k \in FlagKeys |-> IF k \in DOMAIN state THEN state[k] ELSE FALSE]

PW_admin == <<"p", "w">>
PW_seven == <<"7">>

\* the values ADMIN_PASSWORD may have in the secrets: unset, empty, a string,
\* a number
AdminPasswords == {None, Str(<<>>), Str(PW_admin), Num(RInt(7))}

\* what a user may type into the password field
PasswordInputs == {<<>>, PW_admin, <<"x">>, PW_seven}

\* admin_pw_input == admin_password: a str equals only an equal str
PasswordEquals(admin_pw_input, password) == Str(admin_pw_input) = password

SidebarResult(state, sidebar, rerun) ==
    [state |-> state, sidebar |-> sidebar, rerun |-> rerun]

\* mutant: leaving admin mode keeps the session authenticated
AdminSidebar_KeepsAuthenticated(state0, password, admin_pw_input, enter_admin, exit_admin) ==
    LET state == WithDefaults(state0)
    IN  IF ~Truthy(password) THEN SidebarResult(state, "disabled", FALSE)
        ELSE IF state["admin_mode"]
        THEN IF exit_admin
             THEN SidebarResult([state EXCEPT !["admin_mode"] = FALSE],
                                "exit", TRUE)
             ELSE SidebarResult(state, "exit", FALSE)
        ELSE IF ~state["admin_authenticated"]
        THEN IF enter_admin
             THEN IF PasswordEquals(admin_pw_input, password)
                  THEN SidebarResult([k \in FlagKeys |-> TRUE], "form", TRUE)
                  ELSE SidebarResult(state, "wrong", FALSE)
             ELSE SidebarResult(state, "form", FALSE)
        ELSE SidebarResult(state, "empty", FALSE)

\* lines 626-655: one pass over the sidebar with the widget values of the run;
\* rerun tells that st.rerun() ended the run there
AdminSidebar(state0, password, admin_pw_input, enter_admin, exit_admin) ==
    LET state == WithDefaults(state0)
    IN  IF ~Truthy(password) THEN SidebarResult(state, "disabled", FALSE)
        ELSE IF state["admin_mode"]
        THEN IF exit_admin
             THEN SidebarResult([k \in FlagKeys |-> FALSE], "exit", TRUE)
             ELSE SidebarResult(state, "exit", FALSE)
        ELSE IF ~state["admin_authenticated"]
        THEN IF enter_admin
             THEN IF PasswordEquals(admin_pw_input, password)
                  THEN SidebarResult([k \in FlagKeys |-> TRUE], "form", TRUE)
                  ELSE SidebarResult(state, "wrong", FALSE)
             ELSE SidebarResult(state, "form", FALSE)
        ELSE SidebarResult(state, "empty", FALSE)

\* st.session_state.get('admin_mode', False)
AdminMode(state) == IF "admin_mode" \in DOMAIN state THEN state["admin_mode"] ELSE FALSE

AdminAuthenticated(state) ==
    IF "admin_authenticated" \in DOMAIN state
    THEN state["admin_authenticated"] ELSE FALSE

\* lines 658-665 and 859: the report view of all users' records, its error
\* when there is no client, or the normal content
MainContent(state, client) ==
    IF AdminMode(state)
    THEN IF client THEN "admin_report" ELSE "admin_unavailable"
    ELSE "normal"

\* the password field keeps its value while it is rendered
FormShown(sidebar) == sidebar \in {"form", "wrong"}

NewPage ==
    [sidebar |-> "none", view |-> "none", admin_pw |-> <<>>, rerun |-> FALSE,
     event |-> "none"]

NewAudit == [clicked |-> FALSE, input |-> <<>>, left |-> FALSE]

AdminIdle ==
    /\ admin_password = None
    /\ session_state = [s \in Sessions |-> EmptyState]
    /\ page = [s \in Sessions |-> NewPage]
    /\ audit = [s \in Sessions |-> NewAudit]

(***************************************************************************)
(* Calls of parse_nutrition_value on every string over NormAlphabet of     *)
(* length <= MaxLen, on the strings the specification names, and on        *)
(* non-string values.                                                      *)
(***************************************************************************)
NormAlphabet == {"1", "5", ".", ",", " ", WAVE, FWTILDE, TILDE, HYPHEN, "e", "x"}

\* the exponent digit strings of s, commas and spaces removed as line 292
\* removes them, stay within MaxExp
ExpWithin(s) ==
    LET t == RemoveChar(RemoveChar(s, ","), " ")
    IN  \A i \in 1..Len(t) :
            t[i] = "e" =>
                LET j == IF i < Len(t) /\ t[i + 1] \in {"+", "-"} THEN i + 2
                         ELSE i + 1
                IN  NatOf(t, j, DigitsEnd(t, j)) <= MaxExp

NormStrings ==
    {s \in UNION {[1..n -> NormAlphabet] : n \in 0..MaxLen} : ExpWithin(s)}

NamedStrings == {S_1500, S_1200_1500, S_500_open, S_800_1000, S_1e3, SENTINEL}

NormInputs ==
    {Str(s) : s \in NormStrings \cup NamedStrings}
        \cup {None, Num(RZero), Num(RInt(350)), Num(Rat(5, 2))}

InitNormalize ==
    /\ pc = "call"
    /\ value \in NormInputs
    /\ outcome = Returned(RZero)
    /\ ExtractIdle
    /\ ClassifyIdle
    /\ ReportIdle
    /\ LogIdle
    /\ AdminIdle

Normalize ==
    /\ pc = "call"
    /\ outcome' = parse_nutrition_value(value)
    /\ pc' = "returned"
    /\ UNCHANGED <<value, extractVars, classifyVars, reportVars, logVars, adminVars>>

NextNormalize == Normalize

SpecNormalize == InitNormalize /\ [][NextNormalize]_vars

(***************************************************************************)
(* One call of parse_nutrition_from_response, then parse_nutrition_value   *)
(* on each nutrient field it returned.                                     *)
(***************************************************************************)
InitExtract ==
    /\ pc = "call"
    /\ \/ doc \in Docs /\ text = Render(doc)
       \/ doc = NoDoc /\ text \in PieceTexts \cup NamedTexts
    /\ nutrition = NoNutrition
    /\ normalized = NoNormalized
    /\ NormIdle
    /\ ClassifyIdle
    /\ ReportIdle
    /\ LogIdle
    /\ AdminIdle

Extract ==
    /\ pc = "call"
    /\ nutrition' = parse_nutrition_from_response(text)
    /\ pc' = "extracted"
    /\ UNCHANGED <<text, doc, normalized, normVars, classifyVars, reportVars,
                   logVars, adminVars>>

NormalizeFields ==
    /\ pc = "extracted"
    /\ normalized' =
           [k \in NutrientKeys |-> parse_nutrition_value(Str(nutrition[k])).val]
    /\ pc' = "normalized"
    /\ UNCHANGED <<text, doc, nutrition, normVars, classifyVars, reportVars,
                   logVars, adminVars>>

NextExtract == Extract \/ NormalizeFields

SpecExtract == InitExtract /\ [][NextExtract]_vars

(***************************************************************************)
(* One call of classify_meal_type.                                         *)
(***************************************************************************)
InitClassify ==
    /\ pc = "call"
    /\ time_str \in TimeInputs
    /\ meal_type = SlotReturned(UNKNOWN_SLOT)
    /\ NormIdle
    /\ ExtractIdle
    /\ ReportIdle
    /\ LogIdle
    /\ AdminIdle

Classify ==
    /\ pc = "call"
    /\ meal_type' = classify_meal_type(time_str)
    /\ pc' = "returned"
    /\ UNCHANGED <<time_str, normVars, extractVars, reportVars, logVars, adminVars>>

NextClassify == Classify

SpecClassify == InitClassify /\ [][NextClassify]_vars

(***************************************************************************)
(* One run of the admin report script on a non-empty log: the filter loop  *)
(* with its sort, then the period summary.                                 *)
(***************************************************************************)
InitReport ==
    /\ pc = "filter"
    /\ all_records \in Logs
    /\ selected_user \in UserChoices(all_records)
    /\ start_date \in DateChoices
    /\ end_date \in DateChoices
    /\ filtered_records = <<>>
    /\ refiltered = <<>>
    /\ summary = NoSummary
    /\ daily_data = <<>>
    /\ chart_df = <<>>
    /\ summary_data = NoSummaryData
    /\ LogIdle
    /\ AdminIdle
    /\ NormIdle
    /\ ExtractIdle
    /\ ClassifyIdle

\* lines 695-719
FilterRecords ==
    /\ pc = "filter"
    /\ LET kept == FilterLoop(all_records, selected_user, start_date, end_date)
       IN  IF SortRaises(kept)
           THEN filtered_records' = kept /\ pc' = "crashed"
           ELSE filtered_records' = SortRows(kept) /\ pc' = "filtered"
    /\ all_records' = RowsAfterLoop(all_records, selected_user, start_date, end_date)
    /\ UNCHANGED <<selected_user, start_date, end_date, refiltered, summary,
                   daily_data, chart_df, summary_data, logVars, adminVars, normVars, extractVars, classifyVars>>

\* lines 723-738
Summarize ==
    /\ pc = "filtered"
    /\ filtered_records # <<>>
    /\ summary' = PeriodSummary(filtered_records)
    /\ pc' = "summarized"
    /\ UNCHANGED <<all_records, selected_user, start_date, end_date,
                   filtered_records, refiltered, daily_data, chart_df,
                   summary_data, logVars, adminVars, normVars, extractVars, classifyVars>>

\* lines 760-781: the per-date sums and the rows of the chart's data frame
AggregateDaily ==
    /\ pc = "summarized"
    /\ \E items \in {DailyData(filtered_records)} :
          /\ daily_data' = items
          /\ IF ItemsSortRaise(items)
             THEN chart_df' = <<>> /\ pc' = "crashed"
             ELSE chart_df' = SortedItems(items) /\ pc' = "aggregated"
    /\ UNCHANGED <<all_records, selected_user, start_date, end_date,
                   filtered_records, refiltered, summary, summary_data,
                   logVars, adminVars, normVars, extractVars, classifyVars>>

\* line 783 and create_nutrition_chart, lines 303-349
CreateChart ==
    /\ pc = "aggregated"
    /\ pc' = IF ChartRaises(chart_df) THEN "crashed" ELSE "charted"
    /\ UNCHANGED <<normVars, extractVars, classifyVars, reportVars, logVars, adminVars>>

\* lines 824-840: the report form was submitted; the summary row of the
\* report is built and the chart is created again
GenerateReport ==
    /\ pc = "charted"
    /\ daily_data # <<>>
    /\ summary_data' = SummaryData(summary.total, summary.meal_count,
                                   summary.day_count)
    /\ pc' = IF ChartRaises(chart_df) THEN "crashed" ELSE "reported"
    /\ UNCHANGED <<all_records, selected_user, start_date, end_date,
                   filtered_records, refiltered, summary, daily_data, chart_df,
                   logVars, adminVars, normVars, extractVars, classifyVars>>

NextReport ==
    FilterRecords \/ Summarize \/ AggregateDaily \/ CreateChart \/ GenerateReport

SpecReport == InitReport /\ [][NextReport]_vars

\* the filter and its sort applied once more, to their own output, with the
\* same user and dates
Refilter ==
    /\ pc = "filtered"
    /\ refiltered' = SortRows(FilterLoop(filtered_records, selected_user,
                                         start_date, end_date))
    /\ pc' = "refiltered"
    /\ UNCHANGED <<all_records, selected_user, start_date, end_date,
                   filtered_records, summary, daily_data, chart_df,
                   summary_data, logVars, adminVars, normVars, extractVars, classifyVars>>

NextRefilter == FilterRecords \/ Refilter

SpecRefilter == InitReport /\ [][NextRefilter]_vars

(***************************************************************************)
(* Two user sessions run the analysis flow (lines 1067-1099) against one   *)
(* Drive while the admin view reads the log and filters it.  Every call of *)
(* the Sheets or Drive API is one step, and any of them may fail.          *)
(***************************************************************************)
InitLog ==
    /\ pc = "admin"
    /\ gc \in BOOLEAN
    /\ drive \in {<<>>, <<<<HEADER>>>>}
    /\ sessions \in [Sessions -> {NewSession(n, t) :
                                     n \in {<<>>, U_A, U_B}, t \in Answers}]
    /\ \A s \in Sessions : sessions[s].nickname \in {<<>>, NicknameOf[s]}
    /\ clock = 1
    /\ read = "none"
    /\ AdminIdle
    /\ ReportIdle
    /\ NormIdle
    /\ ExtractIdle
    /\ ClassifyIdle

\* mutant: the exception of a store call leaves log_to_spreadsheet
LogFailure_Raises(session, call) ==
    [session EXCEPT !.failed = call, !.at = "raised"]

\* lines 209-211: any exception inside log_to_spreadsheet is turned into
\* False, and the flow shows the 'skipped' notice (line 1097)
LogFailure(session, call) ==
    [session EXCEPT !.failed = call, !.saved = "False", !.at = "done"]

\* lines 1067-1070 and 1098-1101: show the answer, then log it when the store
\* is configured and a nickname is set
ShowAnswer(s) ==
    /\ sessions[s].at = "answer"
    /\ sessions' =
         [sessions EXCEPT ![s] =
            IF @.result_text = <<>> THEN [@ EXCEPT !.at = "done"]
            ELSE [@ EXCEPT !.shown = TRUE,
                           !.at = IF gc /\ sessions[s].nickname # <<>>
                                  THEN "upload" ELSE "done"]]
    /\ UNCHANGED <<pc, gc, adminVars, drive, clock, read, normVars, extractVars,
                   classifyVars, reportVars>>

\* lines 1088-1089: upload_image_to_gas returns a URL or None
UploadImage(s) ==
    /\ sessions[s].at = "upload"
    /\ \E url \in {NoUrl, PhotoUrl} :
          sessions' = [sessions EXCEPT ![s] = [@ EXCEPT !.image_url = url,
                                                       !.at = "open"]]
    /\ UNCHANGED <<pc, gc, adminVars, drive, clock, read, normVars, extractVars,
                   classifyVars, reportVars>>

\* line 130: gc.open finds a spreadsheet, finds none, or fails
OpenSheet(s) ==
    /\ sessions[s].at = "open"
    /\ \/ sessions' = [sessions EXCEPT ![s] = LogFailure(@, "open")]
       \/ /\ drive = <<>>
          /\ sessions' = [sessions EXCEPT ![s] = [@ EXCEPT !.at = "create"]]
       \/ \E d \in 1..Len(drive) :
             sessions' = [sessions EXCEPT ![s] = [@ EXCEPT !.sheet = d,
                                                          !.at = "stamp"]]
    /\ UNCHANGED <<pc, gc, adminVars, drive, clock, read, normVars, extractVars,
                   classifyVars, reportVars>>

\* line 133: gc.create makes a new, empty spreadsheet
CreateSheet(s) ==
    /\ sessions[s].at = "create"
    /\ \/ /\ sessions' = [sessions EXCEPT ![s] = LogFailure(@, "create")]
          /\ drive' = drive
       \/ /\ drive' = Append(drive, <<>>)
          /\ sessions' = [sessions EXCEPT ![s] = [@ EXCEPT !.sheet = Len(drive) + 1,
                                                          !.at = "header"]]
    /\ UNCHANGED <<pc, gc, adminVars, clock, read, normVars, extractVars, classifyVars,
                   reportVars>>

\* lines 135-136: the header row is written to A1:K1
WriteHeader(s) ==
    /\ sessions[s].at = "header"
    /\ \/ /\ sessions' = [sessions EXCEPT ![s] = LogFailure(@, "header")]
          /\ drive' = drive
       \/ /\ drive' = [drive EXCEPT ![sessions[s].sheet] = UpdateHeader(@)]
          /\ sessions' = [sessions EXCEPT ![s] = [@ EXCEPT !.at = "stamp"]]
    /\ UNCHANGED <<pc, gc, adminVars, clock, read, normVars, extractVars, classifyVars,
                   reportVars>>

\* lines 184-185: now = datetime.now(JST)
ReadClock(s) ==
    /\ sessions[s].at = "stamp"
    /\ sessions' = [sessions EXCEPT ![s] = [@ EXCEPT !.now = clock,
                                                    !.at = "append"]]
    /\ clock' = clock + 1
    /\ UNCHANGED <<pc, gc, adminVars, drive, read, normVars, extractVars, classifyVars,
                   reportVars>>

\* the row of session s: lines 1071-1072 and 190-202
RowOf(session) ==
    LET nutrition_data == parse_nutrition_from_response(session.result_text)
    IN  LogRow(session.now, session.nickname, nutrition_data.meal_name,
               nutrition_data, session.result_text, session.image_url)

\* lines 206-207: append_row puts the row below the last row of the sheet,
\* in row 1 when the sheet is empty
AppendRow(s) ==
    /\ sessions[s].at = "append"
    /\ \/ /\ sessions' = [sessions EXCEPT ![s] = LogFailure(@, "append")]
          /\ drive' = drive
       \/ /\ drive' = [drive EXCEPT ![sessions[s].sheet] =
                          Append(@, RowOf(sessions[s]))]
          /\ sessions' = [sessions EXCEPT ![s] = [@ EXCEPT !.saved = "True",
                                                          !.at = "done"]]
    /\ UNCHANGED <<pc, gc, adminVars, clock, read, normVars, extractVars, classifyVars,
                   reportVars>>

\* lines 663-692: get_all_records, which returns [] on any exception, then
\* the user list and the filter inputs
ReadLog ==
    /\ pc = "admin"
    /\ gc
    /\ \/ /\ read' = "failed"
          /\ all_records' = <<>>
       \/ \E d \in 1..Len(drive) :
             /\ read' = "ok"
             /\ all_records' = SheetRecords(drive[d])
    /\ pc' = IF all_records' = <<>> THEN "nodata" ELSE "filter"
    /\ selected_user' \in UserChoices(all_records')
    /\ start_date' \in {<<2024, 5, 31>>, <<2024, 6, 1>>}
    /\ end_date' \in {<<2024, 6, 1>>, <<2024, 6, 2>>}
    /\ UNCHANGED <<filtered_records, refiltered, summary, daily_data, chart_df,
                   summary_data, adminVars, gc, drive, sessions, clock, normVars, extractVars,
                   classifyVars>>

NextLog ==
    \/ \E s \in Sessions :
          \/ ShowAnswer(s) \/ UploadImage(s) \/ OpenSheet(s) \/ CreateSheet(s)
          \/ WriteHeader(s) \/ ReadClock(s) \/ AppendRow(s)
    \/ ReadLog
    \/ FilterRecords

SpecLog == InitLog /\ [][NextLog]_vars

(***************************************************************************)
(* Two browser sessions of the app.  Every step is one script run of one   *)
(* session, started by loading the page, by a widget of the sidebar, or by *)
(* st.rerun().                                                             *)
(***************************************************************************)
InitAdmin ==
    /\ pc = "serving"
    /\ admin_password \in AdminPasswords
    /\ session_state = [s \in Sessions |-> EmptyState]
    /\ page = [s \in Sessions |-> NewPage]
    /\ audit = [s \in Sessions |-> NewAudit]
    /\ gc \in BOOLEAN
    /\ drive = <<>>
    /\ sessions = [s \in Sessions |-> NewSession(<<>>, <<>>)]
    /\ clock = 1
    /\ read = "none"
    /\ ReportIdle
    /\ NormIdle
    /\ ExtractIdle
    /\ ClassifyIdle

\* one script run of session s from line 626 on, with the widget values given
ScriptRun(s, event, admin_pw_input, enter_admin, exit_admin) ==
    \E out \in {AdminSidebar(session_state[s], admin_password, admin_pw_input,
                             enter_admin, exit_admin)} :
        /\ session_state' = [session_state EXCEPT ![s] = out.state]
        /\ page' = [page EXCEPT ![s] =
               [sidebar |-> out.sidebar,
                view |-> IF out.rerun THEN "pending"
                         ELSE MainContent(out.state, gc),
                admin_pw |-> IF FormShown(out.sidebar) /\ ~out.rerun
                             THEN admin_pw_input ELSE <<>>,
                rerun |-> out.rerun,
                event |-> event]]

\* the page is loaded, another widget was used, or st.rerun() was called
Run(s) ==
    /\ ScriptRun(s, "run", page[s].admin_pw, FALSE, FALSE)
    /\ UNCHANGED <<pc, admin_password, audit, logVars, normVars, extractVars,
                   classifyVars, reportVars>>

\* the run ends before the sidebar: st.stop() of lines 71, 86, 93 or the
\* st.rerun() of the nickname forms, lines 603 and 623
StopEarly(s) ==
    /\ page' = [page EXCEPT ![s] =
           [sidebar |-> "none", view |-> "gate", admin_pw |-> <<>>,
            rerun |-> FALSE, event |-> "early"]]
    /\ UNCHANGED <<pc, admin_password, session_state, audit, logVars, normVars,
                   extractVars, classifyVars, reportVars>>

\* the user changes the text of the password field
TypePassword(s) ==
    /\ FormShown(page[s].sidebar)
    /\ ~page[s].rerun
    /\ \E admin_pw_input \in PasswordInputs :
          /\ admin_pw_input # page[s].admin_pw
          /\ ScriptRun(s, "type", admin_pw_input, FALSE, FALSE)
    /\ UNCHANGED <<pc, admin_password, audit, logVars, normVars, extractVars,
                   classifyVars, reportVars>>

\* the user presses the enter_admin button with some text in the field
ClickEnter(s) ==
    /\ FormShown(page[s].sidebar)
    /\ ~page[s].rerun
    /\ \E admin_pw_input \in PasswordInputs :
          /\ ScriptRun(s, "enter", admin_pw_input, TRUE, FALSE)
          /\ audit' = [audit EXCEPT ![s].clicked = TRUE,
                                    ![s].input = admin_pw_input]
    /\ UNCHANGED <<pc, admin_password, logVars, normVars, extractVars,
                   classifyVars, reportVars>>

\* the user presses the exit_admin button
ClickExit(s) ==
    /\ page[s].sidebar = "exit"
    /\ ~page[s].rerun
    /\ ScriptRun(s, "exit", <<>>, FALSE, TRUE)
    /\ audit' = [audit EXCEPT ![s] = [clicked |-> FALSE, input |-> <<>>,
                                      left |-> TRUE]]
    /\ UNCHANGED <<pc, admin_password, logVars, normVars, extractVars,
                   classifyVars, reportVars>>

NextAdmin ==
    \E s \in Sessions :
        Run(s) \/ StopEarly(s) \/ TypePassword(s) \/ ClickEnter(s) \/ ClickExit(s)

SpecAdmin == InitAdmin /\ [][NextAdmin]_vars

(***************************************************************************)
(* Claims about parse_nutrition_value.                                     *)
(***************************************************************************)
\* a non-negative decimal numeral: digits, optionally a point and digits
IsNumeral(s) ==
    /\ Len(s) >= 1
    /\ \A i \in 1..Len(s) : s[i] \in Digits \cup {"."}
    /\ Cardinality({i \in 1..Len(s) : s[i] = "."}) <= 1
    /\ s[1] # "." /\ s[Len(s)] # "."

\* the number a numeral writes, read digit by digit
NumeralValue(s) ==
    LET dots == {i \in 1..Len(s) : s[i] = "."}
        nFrac == IF dots = {} THEN 0 ELSE Len(s) - (CHOOSE i \in dots : TRUE)
        ds == RemoveChar(s, ".")
    IN  Rat(NatOf(ds, 1, Len(ds) + 1), Pow10(nFrac))

RangeGlyphs == {WAVE, FWTILDE, TILDE, HYPHEN}

\* C1: parse_nutrition_value returns the number of a plain numeral string, the
\* arithmetic mean of the two endpoints of "a<sep>b" for every accepted range
\* glyph, and the one endpoint of a one-sided range; "1500" gives 1500.0,
\* "1200<wave>1500" gives 1350.0 and "500<wave>" gives 500.0.
C1_NormalizeNumeralsAndRanges ==
    (pc = "returned" /\ value.type = "str") =>
        LET s == value.s
        IN  /\ IsNumeral(s) => outcome = Returned(NumeralValue(s))
            /\ \A k \in 1..Len(s) :
                 LET a == SubSeq(s, 1, k - 1)
                     b == SubSeq(s, k + 1, Len(s))
                 IN  /\ (s[k] \in RangeGlyphs /\ IsNumeral(a) /\ IsNumeral(b)) =>
                            outcome = Returned(RDivInt(
                                RAdd(NumeralValue(a), NumeralValue(b)), 2))
                     /\ (s[k] \in RangeGlyphs /\ IsNumeral(a) /\ b = <<>>) =>
                            outcome = Returned(NumeralValue(a))
            /\ s = S_1500 => outcome = Returned(RInt(1500))
            /\ s = S_1200_1500 => outcome = Returned(RInt(1350))
            /\ s = S_500_open => outcome = Returned(RInt(500))

C1_Witness ==
    /\ pc = "returned"
    /\ value = Str(S_1200_1500)
    /\ outcome = Returned(RInt(1350))

\* The strings float() accepts after the function's own stripping and
\* splitting: the stripped string itself, or, when it holds a range glyph,
\* every non-empty part of its split at the first-listed glyph it holds (and
\* at least one part is non-empty).
FloatParsable(s) ==
    LET t == RemoveChar(RemoveChar(s, ","), " ")
        held == {i \in 1..Len(RangeSeps) : Contains(t, RangeSeps[i])}
    IN  IF held = {} THEN PyFloat(t).ok
        ELSE LET sep == RangeSeps[CHOOSE i \in held : \A j \in held : i <= j]
                 parts == Split(t, sep)
             IN  /\ \E i \in 1..Len(parts) : parts[i] # <<>>
                 /\ \A i \in 1..Len(parts) :
                        parts[i] # <<>> => PyFloat(parts[i]).ok

\* a decimal numeral in the widest reading: an optional sign, digits and at
\* most one point, at least one digit
IsSignedNumeral(s) ==
    LET u == IF Len(s) >= 1 /\ s[1] \in {"+", "-"} THEN Tail(s) ELSE s
    IN  /\ \E i \in 1..Len(u) : u[i] \in Digits
        /\ \A i \in 1..Len(u) : u[i] \in Digits \cup {"."}
        /\ Cardinality({i \in 1..Len(u) : u[i] = "."}) <= 1

RECURSIVE SplitOnGlyphs(_, _)
\* the pieces of s between range glyphs of any kind
SplitOnGlyphs(s, cur) ==
    IF s = <<>> THEN <<cur>>
    ELSE IF Head(s) \in RangeGlyphs THEN <<cur>> \o SplitOnGlyphs(Tail(s), <<>>)
    ELSE SplitOnGlyphs(Tail(s), Append(cur, Head(s)))

\* a decimal numeral, or decimal numerals separated by range glyphs (thousands
\* separators and spaces allowed, empty sides allowed, at least one numeral)
NumeralOrRange(s) ==
    LET t == RemoveChar(RemoveChar(s, ","), " ")
        pieces == SplitOnGlyphs(t, <<>>)
    IN  \/ IsSignedNumeral(t)
        \/ /\ \E i \in 1..Len(pieces) : pieces[i] # <<>>
           /\ \A i \in 1..Len(pieces) :
                  pieces[i] # <<>> => IsSignedNumeral(pieces[i])

\* C2 as stated: parse_nutrition_value never raises, and returns 0.0 for every
\* string that is neither a decimal numeral nor range-glyph-separated decimal
\* numerals.
C2_Original ==
    pc = "returned" =>
        /\ ~outcome.raised
        /\ (value.type = "str" /\ ~NumeralOrRange(value.s)) =>
               outcome.val = RZero

\* C2 amended: parse_nutrition_value never raises, and returns 0.0 for every
\* string that float() does not accept after the function's stripping and
\* splitting (float() also accepts exponent notation: "1e3" gives 1000.0).
C2_TotalZeroOnFloatFailure ==
    pc = "returned" =>
        /\ ~outcome.raised
        /\ (value.type = "str" /\ ~FloatParsable(value.s)) =>
               outcome.val = RZero
        /\ value = None => outcome.val = RZero

C2_Witness ==
    /\ pc = "returned"
    /\ value = Str(<<"5", HYPHEN, "x">>)
    /\ outcome = Returned(RZero)

(***************************************************************************)
(* Claims about parse_nutrition_from_response.                             *)
(***************************************************************************)
\* the nutrient labels, as the claim lists them
ClaimLabels ==
    [energy |-> {L_energy}, protein |-> {L_proteinK, L_proteinH},
     salt |-> {L_salt}, potassium |-> {L_potassium},
     phosphorus |-> {L_phosphorus}]

\* lab occurs in txt
Occurs(txt, lab) ==
    \E i \in 1..Len(txt) :
        i + Len(lab) - 1 <= Len(txt) /\ SubSeq(txt, i, i + Len(lab) - 1) = lab

\* C3: for every response text, a nutrient none of whose labels occurs in the
\* text is returned as the sentinel, whatever the other fields found; so a
\* text with none of the labels yields the sentinel in all five fields.  The
\* call returns for every text (the empty text included).
C3_NoLabelGivesSentinel ==
    pc = "extracted" =>
        /\ \A k \in NutrientKeys :
               (\A lab \in ClaimLabels[k] : ~Occurs(text, lab)) =>
                   nutrition[k] = SENTINEL
        /\ (\A k \in NutrientKeys : \A lab \in ClaimLabels[k] : ~Occurs(text, lab))
               => \A k \in NutrientKeys : nutrition[k] = SENTINEL

C3_Witness ==
    /\ pc = "extracted"
    /\ text = <<"x", ":", "5">>
    /\ \A k \in NutrientKeys : nutrition[k] = SENTINEL

C5_WaveDashRangeExtracted ==
    (pc = "normalized" /\ text = T_potassium(WAVE)) =>
        /\ nutrition.potassium = S_800_1000
        /\ normalized.potassium = RInt(900)

(***************************************************************************)
(* Claims about classify_meal_type.                                        *)
(***************************************************************************)
\* the part of s before its first ':' (all of s when it has none)
HourPart(s) ==
    LET colons == {i \in 1..Len(s) : s[i] = ":"}
    IN  IF colons = {} THEN s
        ELSE SubSeq(s, 1, (CHOOSE i \in colons : \A j \in colons : i <= j) - 1)

\* p writes an integer: blanks around an optional sign and at least one digit
WritesInteger(p) ==
    LET t == Strip(p)
        u == IF Len(t) >= 1 /\ t[1] \in {"+", "-"} THEN Tail(t) ELSE t
    IN  Len(u) >= 1 /\ \A i \in 1..Len(u) : u[i] \in Digits

IntegerWritten(p) ==
    LET t == Strip(p)
        neg == t[1] = "-"
        u == IF t[1] \in {"+", "-"} THEN Tail(t) ELSE t
    IN  (IF neg THEN -1 ELSE 1) * NatOf(u, 1, Len(u) + 1)

\* C6: classify_meal_type never raises and reads the hour only: when the part
\* before the first ':' writes an integer h the slot is Breakfast iff
\* 5 <= h < 10, Lunch iff 10 <= h < 15, Dinner iff 15 <= h < 22 and LateNight
\* otherwise; every other input, non-strings included, gives Unknown.
C6_ClassifyByHour ==
    pc = "returned" =>
        /\ ~meal_type.raised
        /\ IF time_str.type = "str" /\ WritesInteger(HourPart(time_str.s))
           THEN LET h == IntegerWritten(HourPart(time_str.s))
                IN  /\ meal_type.slot = BREAKFAST <=> (5 <= h /\ h < 10)
                    /\ meal_type.slot = LUNCH <=> (10 <= h /\ h < 15)
                    /\ meal_type.slot = DINNER <=> (15 <= h /\ h < 22)
                    /\ meal_type.slot = LATE_NIGHT <=> (h < 5 \/ h >= 22)
           ELSE meal_type.slot = UNKNOWN_SLOT
        /\ time_str = Str(T_0730) => meal_type.slot = BREAKFAST
        /\ time_str = Str(T_1200) => meal_type.slot = LUNCH
        /\ time_str = Str(T_1845) => meal_type.slot = DINNER
        /\ time_str = Str(T_0200) => meal_type.slot = LATE_NIGHT
        /\ time_str = Str(T_bad) => meal_type.slot = UNKNOWN_SLOT

C6_Witness ==
    /\ pc = "returned"
    /\ time_str = Str(<<"2", "2", ":">>)
    /\ meal_type = SlotReturned(LATE_NIGHT)

(***************************************************************************)
(* Claims about the admin record filter and the period summary.            *)
(***************************************************************************)
DateCell(row) == Get(row, K_DATE, Str(<<>>))

\* C7: no row whose date does not parse as YYYY-MM-DD (empty, missing or
\* malformed) is in the filtered record list, whatever the user and dates.
C7_UnparsableDateExcluded ==
    pc = "filtered" =>
        \A j \in 1..Len(filtered_records) :
            Strptime(DateCell(filtered_records[j])).ok

\* row i of the log is in the filtered list (the loop changed it in place)
Kept(i) == \E j \in 1..Len(filtered_records) : filtered_records[j] = all_records[i]

\* C8: a row with a parsable date is kept iff start <= date <= end, both ends
\* included, and the selected user is the 'all' choice or equals the row's
\* user name exactly; with start > end no such row is kept.
C8_FilterKeepsExactlyMatching ==
    pc = "filtered" =>
        \A i \in 1..Len(all_records) :
            LET p == Strptime(DateCell(all_records[i]))
                name == Get(all_records[i], K_NAME, None)
            IN  p.ok =>
                  /\ Kept(i) <=>
                        /\ DateLE(start_date, p.date)
                        /\ DateLE(p.date, end_date)
                        /\ (selected_user = ALL_USERS \/ name = selected_user)
                  /\ ~DateLE(start_date, end_date) => ~Kept(i)

\* a row dated on the end date is kept while a row of another user, whose
\* name differs only in case, is dropped
C8_Witness ==
    /\ pc = "filtered"
    /\ selected_user = Str(U_a)
    /\ start_date = <<2024, 6, 1>>
    /\ end_date = <<2024, 6, 3>>
    /\ Len(all_records) = 2
    /\ DateCell(all_records[1]) = Str(D_0603_unpadded) /\ Kept(1)
    /\ DateCell(all_records[2]) = Str(D_0601) /\ ~Kept(2)

\* C9: filtering the filtered list again with the same user and dates gives
\* exactly the same list.
C9_FilterIdempotent ==
    pc = "refiltered" => refiltered = filtered_records

C9_Witness ==
    /\ pc = "refiltered"
    /\ selected_user # ALL_USERS
    /\ refiltered # <<>>
    /\ Len(filtered_records) < Len(all_records)

\* what one row adds to the period total of nutrient k: nothing when the
\* column is missing or holds the sentinel, else the normalized cell
Contribution(row, k) ==
    IF ColumnOf[k] \notin DOMAIN row THEN RZero
    ELSE IF row[ColumnOf[k]] = Str(SENTINEL) THEN RZero
    ELSE parse_nutrition_value(row[ColumnOf[k]]).val

RECURSIVE SumContributions(_, _, _)
SumContributions(rows, k, n) ==
    IF n = 0 THEN RZero
    ELSE RAdd(SumContributions(rows, k, n - 1), Contribution(rows[n], k))

\* C10: the meal count of the period summary is the number of filtered rows,
\* and each nutrient total is the sum over all rows of the normalized cell,
\* rows with a sentinel, unparsable or missing cell adding 0 and still counted.
C10_SummaryCountsAndTotals ==
    pc = "summarized" =>
        /\ summary.meal_count = Len(filtered_records)
        /\ \A k \in NutrientKeys :
               summary.total[k] =
                   SumContributions(filtered_records, k, Len(filtered_records))

\* a row without nutrient columns and a row of sentinels are both counted
C10_Witness ==
    /\ pc = "summarized"
    /\ Len(filtered_records) = 2
    /\ K_ENERGY \notin DOMAIN filtered_records[1]
    /\ Get(filtered_records[2], K_PROTEIN, None) = Str(SENTINEL)
    /\ summary.meal_count = 2
    /\ summary.total = [energy |-> RInt(700), protein |-> RZero, salt |-> RZero,
                        potassium |-> RZero, phosphorus |-> RZero]

\* the distinct non-empty date cells of the rows
DistinctDates(rows) ==
    {DateCell(rows[i]) : i \in 1..Len(rows)} \ {Str(<<>>), None}

CalendarDates(rows) ==
    {Strptime(DateCell(rows[i])).date :
        i \in {j \in 1..Len(rows) : Strptime(DateCell(rows[j])).ok}}

\* the sum of nutrient k over the first n rows that fall on calendar date d
RECURSIVE SumOnDate(_, _, _, _)
SumOnDate(rows, k, d, n) ==
    IF n = 0 THEN RZero
    ELSE RAdd(SumOnDate(rows, k, d, n - 1),
              IF Strptime(DateCell(rows[n])) = DateOk(d)
              THEN Contribution(rows[n], k) ELSE RZero)

\* C12: the daily series has exactly one row per calendar date of the filtered
\* rows, in strictly ascending calendar order, and each row holds the sums of
\* the normalized values of all meals of its date.
C12_DailySeriesPerCalendarDate ==
    pc = "aggregated" =>
        LET rows == filtered_records
            n == Len(chart_df)
        IN  /\ \A i \in 1..n : Strptime(chart_df[i].date).ok
            /\ {Strptime(chart_df[i].date).date : i \in 1..n} = CalendarDates(rows)
            /\ \A i, j \in 1..n :
                   i < j => /\ Strptime(chart_df[i].date).date
                                # Strptime(chart_df[j].date).date
                            /\ DateLE(Strptime(chart_df[i].date).date,
                                      Strptime(chart_df[j].date).date)
            /\ \A i \in 1..n : \A k \in NutrientKeys :
                   chart_df[i].sums[k] =
                       SumOnDate(rows, k, Strptime(chart_df[i].date).date, Len(rows))

\* C13: the admin report path never ends in an unhandled exception.
C13_ReportPathCompletes == pc # "crashed"

(***************************************************************************)
(* Claims about the log store and the analysis flow.                       *)
(***************************************************************************)
\* the dict that get_all_records returns for a row below the header that
\* get_or_create_spreadsheet writes
RecordOfRow(row) ==
    [key \in {HeaderKey(HEADER[c]) : c \in 1..Len(HEADER)} |->
        Numericise(row[CHOOSE c \in 1..Len(HEADER) : HeaderKey(HEADER[c]) = key])]

InLog(session, sheet) ==
    \E i \in 1..Len(SheetRecords(sheet)) :
        SheetRecords(sheet)[i] = RecordOfRow(RowOf(session))

\* C14: whatever the interleaving of the sessions, the row of every
\* log_to_spreadsheet call that returned True is, unchanged, in the log that
\* get_all_records returns from then on.
C14_AppendedRowsStayInLog ==
    \A s \in Sessions :
        sessions[s].saved = "True" =>
            \A d \in 1..Len(drive) : InLog(sessions[s], drive[d])

StoreCalls == {"open", "create", "header", "append"}

\* C15: a failing store call makes log_to_spreadsheet return False and never
\* leaves it as an exception; a failing get_all_records gives the empty list;
\* every answer the model gave is shown, whether the store is unconfigured,
\* the upload failed or the row was not saved; and without a failing store
\* call the row is appended, with or without a photo URL.
C15_StoreFailureReportedNotRaised ==
    /\ \A s \in Sessions :
          LET session == sessions[s]
          IN  /\ session.at # "raised"
              /\ session.failed \in StoreCalls =>
                     session.saved = "False" /\ session.at = "done"
              /\ (session.result_text # <<>> /\ session.at # "answer") =>
                     session.shown
              /\ (session.at = "done" /\ session.failed = "none" /\ gc
                      /\ session.nickname # <<>> /\ session.result_text # <<>>) =>
                     session.saved = "True"
    /\ read = "failed" => all_records = <<>> /\ pc = "nodata"

\* one session lost its row to a failing append and still showed the answer,
\* the other saved its row although its photo upload had failed
C15_Witness ==
    /\ sessions["s1"].failed = "append"
    /\ sessions["s1"].saved = "False"
    /\ sessions["s1"].shown
    /\ sessions["s2"].image_url = NoUrl
    /\ sessions["s2"].saved = "True"
    /\ \E i \in 1..Len(drive[sessions["s2"].sheet]) :
          drive[sessions["s2"].sheet][i] = RowOf(sessions["s2"])
    /\ read = "failed"

\* the time a row was logged at: the cell of the time column, whichever of
\* the two labels the header gives it
LoggedTime(row) ==
    IF K_TIME \in DOMAIN row THEN row[K_TIME] ELSE Get(row, H_TIME, Str(<<>>))

LoggedKey(row) == <<DateCell(row), LoggedTime(row)>>

\* C16: whatever the order in which concurrent sessions appended their rows,
\* the filtered records are in ascending order of (date, time).
C16_FilteredAscendingByDateTime ==
    pc = "filtered" =>
        \A i, j \in 1..Len(filtered_records) :
            i < j => ~KeyLess(LoggedKey(filtered_records[j]),
                              LoggedKey(filtered_records[i]))

\* C17: a row that a session appended below the header written by
\* get_or_create_spreadsheet is listed under its nickname in the user
\* selector, is kept by the filter when that user is selected and the date
\* is in range, and gets the meal slot of its logged time.
C17_LoggedRowReadBackUnderItsUser ==
    pc = "filtered" =>
        \A i \in 1..Len(all_records) :
            LET row == all_records[i]
                p == Strptime(DateCell(row))
            IN  (H_USER \in DOMAIN row /\ Truthy(row[H_USER]) /\ p.ok
                   /\ DateLE(start_date, p.date) /\ DateLE(p.date, end_date)) =>
                    /\ row[H_USER] \in UserChoices(all_records)
                    /\ KeepRow(row, row[H_USER], start_date, end_date)
                    /\ Kept(i) =>
                         row[K_SLOT] =
                             Str(<<classify_meal_type(row[H_TIME]).slot>>)

(***************************************************************************)
(* Claims about the printable report.                                      *)
(***************************************************************************)
\* C18: the summary table of the report, headed as the daily average, shows
\* for each nutrient the period total divided by the number of distinct days.
C18_ReportShowsPerDayAverage ==
    pc = "reported" =>
        \A k \in NutrientKeys :
            summary_data.avg[k] =
                FormatFixed(RDivInt(summary.total[k], summary.day_count),
                            ReportDecimals(k))

(***************************************************************************)
(* Claims about the dish name and about first-match extraction.            *)
(***************************************************************************)
\* the indices at which the dish label followed by a colon starts
DishLabelStarts(txt) ==
    {i \in 1..Len(txt) : /\ MatchAt(txt, i, L_dish)
                         /\ i + Len(L_dish) <= Len(txt)
                         /\ txt[i + Len(L_dish)] \in {":", FWCOLON}}

\* what follows index p - 1 on its own line
RestOfLine(txt, p) ==
    IF p > Len(txt) \/ txt[p] = NL THEN <<>> ELSE SubSeq(txt, p, LineEnd(txt, p))

\* C19: the dish name is the trimmed rest of the line of the first dish
\* label with its colon, and the sentinel when there is no such label or
\* only whitespace follows it on that line.
C19_DishNameFromLabelLine ==
    pc = "extracted" =>
        LET starts == DishLabelStarts(text)
            first == CHOOSE x \in starts : \A y \in starts : x <= y
            rest == Strip(RestOfLine(text, first + Len(L_dish) + 1))
        IN  nutrition.meal_name =
                IF starts = {} \/ rest = <<>> THEN SENTINEL ELSE rest

\* the indices at which a label of nutrient k starts
LabelStarts(txt, k) ==
    {i \in 1..Len(txt) : \E lab \in ClaimLabels[k] : MatchAt(txt, i, lab)}

\* the first run of capture-class characters anywhere after the first label
\* of nutrient k, line feeds in between or not; <<>> when there is none
FirstRunAfterLabel(txt, k) ==
    LET starts == LabelStarts(txt, k)
        first == CHOOSE x \in starts : \A y \in starts : x <= y
        lab == CHOOSE l \in ClaimLabels[k] : MatchAt(txt, first, l)
        cls == {j \in (first + Len(lab))..Len(txt) : txt[j] \in CaptureClass}
        j0 == CHOOSE x \in cls : \A y \in cls : x <= y
    IN  IF starts = {} THEN <<>>
        ELSE IF cls = {} THEN <<>>
        ELSE SubSeq(txt, j0, RunEnd(txt, j0))

\* C20: each nutrient field is the first run of number characters found
\* anywhere after the first occurrence of the nutrient's label, whatever lies
\* between them, with its separators normalized; no later label overrides it.
C20_FirstMatchAnywhereAfterLabel ==
    pc = "extracted" =>
        \A k \in NutrientKeys :
            LET run == FirstRunAfterLabel(text, k)
            IN  nutrition[k] =
                    IF run = <<>> THEN SENTINEL
                    ELSE ReplaceChar(ReplaceChar(RemoveChar(run, ","),
                                                 FWTILDE, WAVE), TILDE, WAVE)

(***************************************************************************)
(* Separators left in the returned nutrient fields.                        *)
(***************************************************************************)
\* C21: every nutrient field parse_nutrition_from_response returns has its
\* thousands separators removed and its range glyph made canonical: it holds
\* no ',', no full-width tilde, no '~' and no '-', whichever glyph the text used.
C21_FieldsCanonicalGlyph ==
    pc = "extracted" =>
        \A k \in NutrientKeys :
            nutrition[k] # SENTINEL =>
                \A c \in {",", FWTILDE, TILDE, HYPHEN} :
                    ~Contains(nutrition[k], c)

HasDigit(s) == \E i \in 1..Len(s) : s[i] \in Digits

\* C22: each of the five nutrient fields parse_nutrition_from_response returns
\* is the sentinel or a string holding at least one digit; it is never the
\* empty string and never made of separator characters only.
C22_FieldSentinelOrHasDigit ==
    pc = "extracted" =>
        \A k \in NutrientKeys :
            nutrition[k] = SENTINEL \/ HasDigit(nutrition[k])

(***************************************************************************)
(* The period summary against the daily series.                            *)
(***************************************************************************)
\* the sum of nutrient k over the first n rows of the daily series
RECURSIVE SeriesSum(_, _, _)
SeriesSum(df, k, n) ==
    IF n = 0 THEN RZero ELSE RAdd(SeriesSum(df, k, n - 1), df[n].sums[k])

\* C23: for every non-empty filtered record set the period summary and the
\* daily series agree: the day count of the summary is the number of rows of
\* the series, and for each nutrient the values of the series add up to the
\* period total.
C23_SummaryAgreesWithDailySeries ==
    pc = "aggregated" =>
        /\ summary.day_count = Len(chart_df)
        /\ \A k \in NutrientKeys :
               SeriesSum(chart_df, k, Len(chart_df)) = summary.total[k]

(***************************************************************************)
(* Claims about the admin mode.                                            *)
(***************************************************************************)
\* an ADMIN_PASSWORD is configured
PasswordConfigured == admin_password \notin {None, Str(<<>>)}

\* the text the user of session s last submitted with the enter_admin button,
\* since the session began or last left admin mode, is the configured password
EnteredPassword(s) ==
    /\ audit[s].clicked
    /\ admin_password.type = "str"
    /\ audit[s].input = admin_password.s

\* C24: in every session admin_mode is true only if admin_authenticated is;
\* the admin view is rendered only where an ADMIN_PASSWORD is configured and
\* the entered password equalled it; a wrong password leaves both flags
\* false; leaving admin mode resets both flags, so that entering again needs
\* the password again.
C24_AdminModeOnlyAfterPassword ==
    \A s \in Sessions :
        /\ AdminMode(session_state[s]) => AdminAuthenticated(session_state[s])
        /\ (AdminMode(session_state[s])
              \/ page[s].view \in {"admin_report", "admin_unavailable"})
             => PasswordConfigured /\ EnteredPassword(s)
        /\ (page[s].event = "enter" /\ ~EnteredPassword(s))
             => /\ ~AdminMode(session_state[s])
                /\ ~AdminAuthenticated(session_state[s])
        /\ page[s].event = "exit"
             => /\ ~AdminMode(session_state[s])
                /\ ~AdminAuthenticated(session_state[s])
                /\ ~audit[s].clicked

\* one session shows the report again after having left admin mode, while the
\* other was refused with a wrong password
C24_Witness ==
    /\ page["s1"].view = "admin_report"
    /\ audit["s1"].left
    /\ page["s2"].event = "enter"
    /\ page["s2"].sidebar = "wrong"
    /\ audit["s2"].input = <<"x">>
    /\ page["s2"].view = "normal"

====
